---- MODULE Spec2Model ----
(***************************************************************************)
(* A model of the two leaf components of aiven-client:                     *)
(*   - the configuration compiler of src/aiven/client/cli.py               *)
(*     (collect_user_config_options, convert_str_to_value,                 *)
(*     create_user_config), and                                            *)
(*   - the table renderer of src/aiven/client/pretty.py                    *)
(*     (format_item, print_list, print_table),                             *)
(* and of two commands of cli.py, service_terminate and service_create.    *)
(*                                                                         *)
(* Python strings are sequences of one-character strings, so that split,   *)
(* join, len, ljust, upper, sorting and glob matching are computed and not *)
(* assumed.  Python values (JSON documents, schemas, configurations) are   *)
(* tagged records: str, int, float, bool, none, list and dict; a dict is   *)
(* a sequence of <<key, value>> pairs with distinct keys, in insertion     *)
(* order.                                                                   *)
(***************************************************************************)
EXTENDS Integers, Sequences, FiniteSets, TLC

VARIABLES
    \* create_user_config: its arguments, locals and how it ended
    service_type,        \* the service_type argument
    args_user_config,    \* self.args.user_config, the "path=value" strings
    options,             \* the flattened schema (a dict), once computed
    user_config,         \* the configuration under construction
    idx,                 \* how many assignments the loop has gone through
    cpc,                 \* position in create_user_config
    outcome,             \* how the call ended
    \* print_table: its arguments, locals and output
    result,              \* the sequence handed to print_table
    drop_fields,         \* the drop_fields argument, as a set of field names
    layout_arg,          \* the table_layout argument as the caller passed it
    table_layout,        \* the table_layout argument, then the local
    widths,              \* field name -> column width
    formatted_values,    \* one dict of formatted fields per record
    formatted_row,       \* the loop variable the closures of print_table see
    vertical_width,      \* the width detail names are padded to
    row_num,             \* how many records the print loop has gone through
    lines,               \* standard output, one element per printed line
    tpc,                 \* position in print_table
    texc,                \* the exception print_table ended with, or ""
    \* lines 398-401 of create_user_config, one conversion on its own
    conv_schema,         \* the type descriptor handed to convert_str_to_value
    conv_value,          \* the raw string handed to convert_str_to_value
    converted,           \* how convert_str_to_value ended
    assigned,            \* how the try block around it ended
    vpc,                 \* position in the conversion
    \* service_terminate: its arguments, the console and the deletions
    args_force,          \* self.args.force
    env_AIVEN_FORCE,     \* os.environ.get("AIVEN_FORCE")
    args_name,           \* self.args.name, the services to terminate
    entered,             \* what the user typed at the prompts so far
    deleted,             \* the services delete_service was called for, in order
    kpc,                 \* position in service_terminate
    kexc,                \* the exception service_terminate ended with, or ""
    \* service_create: its arguments, locals and the request sent
    args_service_type,   \* self.args.service_type
    args_plan,           \* self.args.plan
    args_no_fail_if_exists, \* self.args.no_fail_if_exists
    create_service_type, \* the local service_type of service_create
    plan,                \* the local plan
    request,             \* the arguments of client.create_service, once called
    spc,                 \* position in service_create
    sexc                 \* the exception service_create ended with, or ""

compileVars == <<service_type, args_user_config, options, user_config, idx, cpc, outcome>>
tableVars == <<result, drop_fields, layout_arg, table_layout, widths, formatted_values, formatted_row,
               vertical_width, row_num, lines, tpc, texc>>
convertVars == <<conv_schema, conv_value, converted, assigned, vpc>>
terminateVars == <<args_force, env_AIVEN_FORCE, args_name, entered, deleted, kpc, kexc>>
createVars == <<args_service_type, args_plan, args_no_fail_if_exists, create_service_type, plan, request, spc, sexc>>
vars == <<compileVars, tableVars, convertVars, terminateVars, createVars>>

-----------------------------------------------------------------------------
(* Characters and strings *)

\* The characters of the model in code point order (ASCII).
Chars == <<" ", "\"", "*", ",", "-", ".",
           "0", "1", "2", "3", "4", "5", "6", "7", "8", "9",
           ":", "=", "?",
           "A", "B", "C", "D", "E", "F", "G", "H", "I", "J", "K", "L", "M",
           "N", "O", "P", "Q", "R", "S", "T", "U", "V", "W", "X", "Y", "Z",
           "[", "\\", "]", "_",
           "a", "b", "c", "d", "e", "f", "g", "h", "i", "j", "k", "l", "m",
           "n", "o", "p", "q", "r", "s", "t", "u", "v", "w", "x", "y", "z",
           "{", "}">>

Ord(c) == CHOOSE i \in 1..Len(Chars) : Chars[i] = c

Max2(a, b) == IF a >= b THEN a ELSE b

\* str < str: lexicographic by code point.
RECURSIVE StrLess(_, _)
StrLess(s, t) ==
    IF t = <<>> THEN FALSE
    ELSE IF s = <<>> THEN TRUE
    ELSE IF s[1] = t[1] THEN StrLess(Tail(s), Tail(t))
    ELSE Ord(s[1]) < Ord(t[1])

EndsWith(s, p) == Len(p) <= Len(s) /\ SubSeq(s, Len(s) - Len(p) + 1, Len(s)) = p

\* x in s, for two strings: s has x as a substring.
IsSubstring(x, s) == \E i \in 0..(Len(s) - Len(x)) : SubSeq(s, i + 1, i + Len(x)) = x

\* The index of the first occurrence of character c in s, 0 when there is none.
IndexOf(s, c) ==
    IF \E i \in 1..Len(s) : s[i] = c
    THEN CHOOSE i \in 1..Len(s) : s[i] = c /\ \A j \in 1..(i - 1) : s[j] # c
    ELSE 0

\* s.split(c): the pieces of s between the occurrences of character c.
RECURSIVE Split(_, _)
Split(s, c) ==
    LET i == IndexOf(s, c)
    IN  IF i = 0 THEN <<s>>
        ELSE <<SubSeq(s, 1, i - 1)>> \o Split(SubSeq(s, i + 1, Len(s)), c)

\* s cut at the last occurrence of c, or s alone.
SplitAtLast(s, c) ==
    IF \E i \in 1..Len(s) : s[i] = c
    THEN LET i == CHOOSE i \in 1..Len(s) : s[i] = c /\ \A j \in (i + 1)..Len(s) : s[j] # c
         IN  <<SubSeq(s, 1, i - 1), SubSeq(s, i + 1, Len(s))>>
    ELSE <<s>>

\* s.split(c, 1): s cut at the first occurrence of c, or s alone.
Split1(s, c) ==
    LET i == IndexOf(s, c)
    IN  IF i = 0 THEN <<s>>
        ELSE <<SubSeq(s, 1, i - 1), SubSeq(s, i + 1, Len(s))>>

\* sep.join(parts)
RECURSIVE Join(_, _)
Join(sep, parts) ==
    IF parts = <<>> THEN <<>>
    ELSE IF Len(parts) = 1 THEN parts[1]
    ELSE parts[1] \o sep \o Join(sep, Tail(parts))

\* c * n, for a character c
RECURSIVE Repeat(_, _)
Repeat(c, n) == IF n <= 0 THEN <<>> ELSE <<c>> \o Repeat(c, n - 1)

\* s.ljust(w): s padded with spaces on the right up to w characters.
Ljust(s, w) == s \o Repeat(" ", w - Len(s))

UpperChar(c) ==
    IF Ord(c) >= Ord("a") /\ Ord(c) <= Ord("z")
    THEN Chars[Ord(c) - Ord("a") + Ord("A")]
    ELSE c

\* s.upper()
Upper(s) == [i \in 1..Len(s) |-> UpperChar(s[i])]

-----------------------------------------------------------------------------
(* Python values *)

PyStr(s) == [k |-> "str", s |-> s]
PyInt(n) == [k |-> "int", n |-> n]
PyBool(b) == [k |-> "bool", b |-> b]
PyNone == [k |-> "none"]
\* A float m / 10^e with e the least possible (no trailing zero in the fraction).
PyFloat(m, e) == [k |-> "float", m |-> m, e |-> e]
PyList(items) == [k |-> "list", items |-> items]
PyDict(items) == [k |-> "dict", items |-> items]

EmptyDict == PyDict(<<>>)

IsDict(v) == v.k = "dict"

\* key in d
DictHas(d, key) == \E i \in 1..Len(d.items) : d.items[i][1] = key

\* d[key], for a key of d
DictGet(d, key) == d.items[CHOOSE i \in 1..Len(d.items) : d.items[i][1] = key][2]

\* d.get(key, default)
DictGetOr(d, key, default) == IF DictHas(d, key) THEN DictGet(d, key) ELSE default

\* d[key] = v: an old key keeps its place, a new one goes last.
DictSet(d, key, v) ==
    IF DictHas(d, key)
    THEN PyDict([i \in 1..Len(d.items) |->
                   IF d.items[i][1] = key THEN <<key, v>> ELSE d.items[i]])
    ELSE PyDict(Append(d.items, <<key, v>>))

\* d.update(e)
RECURSIVE DictUpdateItems(_, _)
DictUpdateItems(d, items) ==
    IF items = <<>> THEN d
    ELSE DictUpdateItems(DictSet(d, items[1][1], items[1][2]), Tail(items))

DictUpdate(d, e) == DictUpdateItems(d, e.items)

\* list(d): the keys in insertion order
DictKeys(d) == [i \in 1..Len(d.items) |-> d.items[i][1]]

DictKeySet(d) == {d.items[i][1] : i \in 1..Len(d.items)}

\* sorted(d.items()): the pairs by key; the keys are distinct, so the values are
\* never compared.
RECURSIVE SortedItems(_)
SortedItems(items) ==
    IF items = <<>> THEN <<>>
    ELSE LET m == CHOOSE i \in 1..Len(items) :
                      \A j \in 1..Len(items) : j = i \/ StrLess(items[i][1], items[j][1])
             rest == [j \in 1..(Len(items) - 1) |-> IF j < m THEN items[j] ELSE items[j + 1]]
         IN  <<items[m]>> \o SortedItems(rest)

-----------------------------------------------------------------------------
(* The words of the schema documents and of the compiler *)

K_type == <<"t", "y", "p", "e">>
K_items == <<"i", "t", "e", "m", "s">>
K_properties == <<"p", "r", "o", "p", "e", "r", "t", "i", "e", "s">>
K_patternProperties ==
    <<"p", "a", "t", "t", "e", "r", "n", "P", "r", "o", "p", "e", "r", "t", "i", "e", "s">>
K_user_config_schema ==
    <<"u", "s", "e", "r", "_", "c", "o", "n", "f", "i", "g", "_", "s", "c", "h", "e", "m", "a">>

T_string == <<"s", "t", "r", "i", "n", "g">>
T_integer == <<"i", "n", "t", "e", "g", "e", "r">>
T_number == <<"n", "u", "m", "b", "e", "r">>
T_boolean == <<"b", "o", "o", "l", "e", "a", "n">>
T_array == <<"a", "r", "r", "a", "y">>
T_object == <<"o", "b", "j", "e", "c", "t">>
T_null == <<"n", "u", "l", "l">>

KEY == <<"K", "E", "Y">>
S_none == <<"n", "o", "n", "e">>
S_true == <<"t", "r", "u", "e">>
S_false == <<"f", "a", "l", "s", "e">>
CommaSpace == <<",", " ">>

-----------------------------------------------------------------------------
(* How a call ends: a value, or an exception with the arguments of its    *)
(* message.  err is the error of the taxonomy the message belongs to.     *)

Returned(v) == [ok |-> TRUE, val |-> v, exc |-> "", err |-> "", args |-> <<>>]

Raised(exc, err, args) == [ok |-> FALSE, val |-> PyNone, exc |-> exc, err |-> err, args |-> args]

-----------------------------------------------------------------------------
(* int(s, 0) and float(s) *)

\* s.strip(), for the one white space character of the model
RECURSIVE Strip(_)
Strip(s) ==
    IF s # <<>> /\ s[1] = " " THEN Strip(Tail(s))
    ELSE IF s # <<>> /\ s[Len(s)] = " " THEN Strip(SubSeq(s, 1, Len(s) - 1))
    ELSE s

LowerChar(c) ==
    IF Ord(c) >= Ord("A") /\ Ord(c) <= Ord("Z")
    THEN Chars[Ord(c) - Ord("A") + Ord("a")]
    ELSE c

Lower(s) == [i \in 1..Len(s) |-> LowerChar(s[i])]

\* The value of a digit, 99 for a character that is none.
DigitVal(c) ==
    IF Ord(c) >= Ord("0") /\ Ord(c) <= Ord("9") THEN Ord(c) - Ord("0")
    ELSE IF Ord(c) >= Ord("a") /\ Ord(c) <= Ord("f") THEN 10 + Ord(c) - Ord("a")
    ELSE IF Ord(c) >= Ord("A") /\ Ord(c) <= Ord("F") THEN 10 + Ord(c) - Ord("A")
    ELSE 99

RECURSIVE RemoveChar(_, _)
RemoveChar(s, c) ==
    IF s = <<>> THEN <<>>
    ELSE IF s[1] = c THEN RemoveChar(Tail(s), c)
    ELSE <<s[1]>> \o RemoveChar(Tail(s), c)

\* A run of digits of the base, single underscores allowed between two digits
\* (and, after a base prefix, before the first).
IsDigits(s, base, afterPrefix) ==
    /\ s # <<>>
    /\ s[Len(s)] # "_"
    /\ afterPrefix \/ s[1] # "_"
    /\ \A i \in 1..Len(s) :
          \/ DigitVal(s[i]) < base
          \/ s[i] = "_" /\ i < Len(s) /\ s[i + 1] # "_"

RECURSIVE DigitsValue(_, _, _)
DigitsValue(s, base, acc) ==
    IF s = <<>> THEN acc
    ELSE DigitsValue(Tail(s), base, acc * base + DigitVal(s[1]))

\* int(s, 0): decimal without leading zeros, or 0x, 0o, 0b and their digits; an
\* optional sign; white space around it ignored.  ValueError otherwise.
ParseInt(s) ==
    LET t == Strip(s)
        neg == t # <<>> /\ t[1] = "-"
        body == IF neg THEN Tail(t) ELSE t
        base == IF Len(body) >= 2 /\ body[1] = "0" /\ body[2] \in {"x", "X"} THEN 16
                ELSE IF Len(body) >= 2 /\ body[1] = "0" /\ body[2] \in {"o", "O"} THEN 8
                ELSE IF Len(body) >= 2 /\ body[1] = "0" /\ body[2] \in {"b", "B"} THEN 2
                ELSE 10
        digits == IF base = 10 THEN body ELSE SubSeq(body, 3, Len(body))
        plain == RemoveChar(digits, "_")
        valid == /\ IsDigits(digits, base, base # 10)
                 /\ base = 10 => (plain[1] # "0" \/ \A i \in 1..Len(plain) : plain[i] = "0")
        n == DigitsValue(plain, base, 0)
    IN  IF valid THEN Returned(PyInt(IF neg THEN 0 - n ELSE n))
        ELSE Raised("ValueError", "", <<PyStr(s)>>)

\* m * 10^e with the trailing zeros of m moved into e.
RECURSIVE NormFloat(_, _)
NormFloat(m, e) ==
    IF m = 0 THEN PyFloat(0, 0)
    ELSE IF m % 10 = 0 THEN NormFloat(m \div 10, e + 1)
    ELSE PyFloat(m, e)

\* float(s): digits with an optional fraction and an optional exponent, or inf,
\* infinity, nan in any case; an optional sign; white space around it ignored.
\* ValueError otherwise.
ParseFloat(s) ==
    LET t == Strip(s)
        neg == t # <<>> /\ t[1] = "-"
        body == IF neg THEN Tail(t) ELSE t
        low == Lower(body)
        ePos == IndexOf(low, "e")
        mant == IF ePos = 0 THEN body ELSE SubSeq(body, 1, ePos - 1)
        expo == IF ePos = 0 THEN <<>> ELSE SubSeq(body, ePos + 1, Len(body))
        expNeg == expo # <<>> /\ expo[1] = "-"
        expDigits == IF expNeg THEN Tail(expo) ELSE expo
        dot == IndexOf(mant, ".")
        whole == IF dot = 0 THEN mant ELSE SubSeq(mant, 1, dot - 1)
        frac == IF dot = 0 THEN <<>> ELSE SubSeq(mant, dot + 1, Len(mant))
        valid == /\ whole # <<>> \/ frac # <<>>
                 /\ whole = <<>> \/ IsDigits(whole, 10, FALSE)
                 /\ frac = <<>> \/ IsDigits(frac, 10, FALSE)
                 /\ ePos = 0 \/ IsDigits(expDigits, 10, FALSE)
        fracPlain == RemoveChar(frac, "_")
        m == DigitsValue(RemoveChar(whole, "_") \o fracPlain, 10, 0)
        ex == IF ePos = 0 THEN 0 ELSE DigitsValue(RemoveChar(expDigits, "_"), 10, 0)
        e == (IF expNeg THEN 0 - ex ELSE ex) - Len(fracPlain)
        sign == IF neg THEN 0 - 1 ELSE 1
    IN  IF low \in {<<"i", "n", "f">>, <<"i", "n", "f", "i", "n", "i", "t", "y">>}
        THEN Returned([k |-> "float", m |-> sign, e |-> 0, special |-> "inf"])
        ELSE IF low = <<"n", "a", "n">>
        THEN Returned([k |-> "float", m |-> 0, e |-> 0, special |-> "nan"])
        ELSE IF valid THEN Returned(NormFloat(sign * m, e))
        ELSE Raised("ValueError", "", <<PyStr(s)>>)

-----------------------------------------------------------------------------
(* cli.py: collect_user_config_options *)

\* A test for the type being the name itself.
InEqualOnly(x, container) == container = PyStr(x)

\* x in container, for a string x: a substring of a str, an element of a list.
In(x, container) ==
    IF container.k = "str" THEN IsSubstring(x, container.s)
    ELSE IF container.k = "list"
    THEN \E i \in 1..Len(container.items) : container.items[i] = PyStr(x)
    ELSE FALSE

\* The truth value Python gives a value in "if not v".
Truthy(v) ==
    IF v.k = "none" THEN FALSE
    ELSE IF v.k = "str" THEN v.s # <<>>
    ELSE IF v.k \in {"dict", "list"} THEN v.items # <<>>
    ELSE IF v.k = "bool" THEN v.b
    ELSE IF v.k = "int" THEN v.n # 0
    ELSE v.m # 0

\* sorted(d.values()) of a dict of at most one entry (a schema level has at most
\* one pattern property): nothing is compared, the values come back as they are.
SortedValues(d) == [i \in 1..Len(d.items) |-> d.items[i][2]]

\* prop if not prefix else prefix + "." + prop
FullName(prefix, prop) == IF prefix = <<>> THEN prop ELSE prefix \o <<".">> \o prop

RECURSIVE collect_user_config_options(_, _)
RECURSIVE CollectProperties(_, _, _)
RECURSIVE CollectPatternProperties(_, _, _)

\* The first loop, over the sorted (prop, spec) pairs still to visit.
CollectProperties(items, prefix, opts) ==
    IF items = <<>> THEN opts
    ELSE LET spec == items[1][2]
             full_name == FullName(prefix, items[1][1])
         IN  CollectProperties(Tail(items), prefix,
                 IF DictGet(spec, K_type) = PyStr(T_object)
                 THEN DictUpdate(opts, collect_user_config_options(spec, full_name))
                 ELSE DictSet(opts, full_name, spec))

\* The second loop, over the pattern property specs still to visit.
CollectPatternProperties(specs, prefix, opts) ==
    IF specs = <<>> THEN opts
    ELSE LET spec == specs[1]
             full_name == FullName(prefix, KEY)
         IN  CollectPatternProperties(Tail(specs), prefix,
                 IF DictGet(spec, K_type) = PyStr(T_object)
                 THEN DictUpdate(opts, collect_user_config_options(spec, full_name))
                 ELSE DictSet(opts, full_name, spec))

collect_user_config_options(obj_def, prefix) ==
    CollectPatternProperties(
        SortedValues(DictGetOr(obj_def, K_patternProperties, EmptyDict)),
        prefix,
        CollectProperties(
            SortedItems(DictGetOr(obj_def, K_properties, EmptyDict).items),
            prefix,
            EmptyDict))

-----------------------------------------------------------------------------
(* cli.py: convert_str_to_value *)

\* A table that takes more spellings.
BoolValuesAnySpelling ==
    PyDict(<< <<(<<"1">>), PyBool(TRUE)>>, <<(<<"0">>), PyBool(FALSE)>>,
              <<S_true, PyBool(TRUE)>>, <<S_false, PyBool(FALSE)>>,
              <<(<<"T", "r", "u", "e">>), PyBool(TRUE)>>,
              <<(<<"y", "e", "s">>), PyBool(TRUE)>> >>)

\* The table of the boolean tokens.
BoolValues ==
    PyDict(<< <<(<<"1">>), PyBool(TRUE)>>, <<(<<"0">>), PyBool(FALSE)>>,
              <<S_true, PyBool(TRUE)>>, <<S_false, PyBool(FALSE)>> >>)

RECURSIVE convert_str_to_value(_, _)
RECURSIVE ConvertItems(_, _, _)

\* A comprehension that leaves out the pieces that raise.
RECURSIVE ConvertItemsSkipInvalid(_, _, _)
ConvertItemsSkipInvalid(items_schema, pieces, done) ==
    IF pieces = <<>> THEN Returned(PyList(done))
    ELSE LET r == convert_str_to_value(items_schema, pieces[1])
         IN  ConvertItemsSkipInvalid(items_schema, Tail(pieces),
                                     IF r.ok THEN Append(done, r.val) ELSE done)

\* The list comprehension of the array branch: the pieces left to right, the
\* first one that raises ending it.
ConvertItems(items_schema, pieces, done) ==
    IF pieces = <<>> THEN Returned(PyList(done))
    ELSE LET r == convert_str_to_value(items_schema, pieces[1])
         IN  IF r.ok THEN ConvertItems(items_schema, Tail(pieces), Append(done, r.val))
             ELSE r

convert_str_to_value(schema, str_value) ==
    LET type == DictGet(schema, K_type)
    IN  IF In(T_string, type) THEN Returned(PyStr(str_value))
        ELSE IF In(T_integer, type) THEN ParseInt(str_value)
        ELSE IF In(T_number, type) THEN ParseFloat(str_value)
        ELSE IF In(T_boolean, type)
        THEN IF DictHas(BoolValues, str_value)
             THEN Returned(DictGet(BoolValues, str_value))
             ELSE Raised("UserError", "InvalidValue",
                         <<PyStr(str_value), PyStr(Join(CommaSpace, DictKeys(BoolValues)))>>)
        ELSE IF In(T_array, type)
        THEN IF DictHas(schema, K_items)
             THEN ConvertItems(DictGet(schema, K_items), Split(str_value, ","), <<>>)
             ELSE Raised("KeyError", "", <<PyStr(K_items)>>)
        ELSE Raised("UserError", "UnsupportedType", <<type>>)

-----------------------------------------------------------------------------
(* cli.py: create_user_config *)

\* ".".join(key.split(".")[:-1] + ["KEY"])
GenericKey(key) ==
    LET parts == Split(key, ".")
    IN  Join(<<".">>, SubSeq(parts, 1, Len(parts) - 1) \o <<KEY>>)

\* A lookup without the second try.
LookupOptionExactOnly(opts, key) == DictGetOr(opts, key, PyNone)

\* The schema the two lookups give: options.get(key), and when that is not
\* truthy options.get(generic_key).  None when both fail.
LookupOption(opts, key) ==
    LET opt_schema == DictGetOr(opts, key, PyNone)
    IN  IF ~Truthy(opt_schema) THEN DictGetOr(opts, GenericKey(key), PyNone)
        ELSE opt_schema

\* ", ".join(options) or "none"
ListedOptions(opts) ==
    LET joined == Join(CommaSpace, DictKeys(opts))
    IN  IF joined = <<>> THEN S_none ELSE joined

\* A walk that keeps the value a path already has.
RECURSIVE SetPathKeepFirst(_, _, _)
SetPathKeepFirst(conf, parts, value) ==
    IF Len(parts) = 1
    THEN IF IsDict(conf)
         THEN Returned(IF DictHas(conf, parts[1]) THEN conf ELSE DictSet(conf, parts[1], value))
         ELSE Raised("TypeError", "", <<conf>>)
    ELSE IF ~IsDict(conf) THEN Raised("AttributeError", "", <<conf>>)
    ELSE LET withDefault == IF DictHas(conf, parts[1]) THEN conf
                            ELSE DictSet(conf, parts[1], EmptyDict)
             sub == SetPathKeepFirst(DictGet(withDefault, parts[1]), Tail(parts), value)
         IN  IF sub.ok THEN Returned(DictSet(withDefault, parts[1], sub.val))
             ELSE sub

\* The walk that stores the value: setdefault and descend along parts[:-1], then
\* conf[parts[-1]] = value.  conf is aliased into user_config, so the result is
\* the whole mapping as changed.  A str, a number or a list on the way has no
\* setdefault (AttributeError) and takes no item under a str key (TypeError).
RECURSIVE SetPath(_, _, _)
SetPath(conf, parts, value) ==
    IF Len(parts) = 1
    THEN IF IsDict(conf) THEN Returned(DictSet(conf, parts[1], value))
         ELSE Raised("TypeError", "", <<conf>>)
    ELSE IF ~IsDict(conf) THEN Raised("AttributeError", "", <<conf>>)
    ELSE LET withDefault == IF DictHas(conf, parts[1]) THEN conf
                            ELSE DictSet(conf, parts[1], EmptyDict)
             sub == SetPath(DictGet(withDefault, parts[1]), Tail(parts), value)
         IN  IF sub.ok THEN Returned(DictSet(withDefault, parts[1], sub.val))
             ELSE sub

\* Lines 398-401: what the try block makes of a conversion: a ValueError
\* leaves it as a UserError that quotes the assignment, anything else as it is.
TryConvert(key_value, conv) ==
    IF ~conv.ok /\ conv.exc = "ValueError"
    THEN Raised("UserError", "InvalidValue", <<PyStr(key_value)>> \o conv.args)
    ELSE conv

\* One turn of the loop over self.args.user_config: the user_config after it,
\* or the exception that leaves the function.
ProcessAssignment(opts, conf, key_value) ==
    LET kv == Split1(key_value, "=")
    IN  IF Len(kv) # 2
        THEN Raised("UserError", "InvalidAssignmentSyntax", <<PyStr(key_value)>>)
        ELSE LET key == kv[1]
                 opt_schema == LookupOption(opts, key)
                 conv == TryConvert(key_value, convert_str_to_value(opt_schema, kv[2]))
             IN  IF ~Truthy(opt_schema)
                 THEN Raised("UserError", "UnknownOption",
                             <<PyStr(key), PyStr(ListedOptions(opts))>>)
                 ELSE IF ~conv.ok THEN conv
                 ELSE SetPath(conf, Split(key, "."), conv.val)

-----------------------------------------------------------------------------
(* The inputs of create_user_config *)

\* The longest list of assignments handed to one call.
MaxAssignments == 3

Leaf(t) == PyDict(<< <<K_type, PyStr(t)>> >>)

ArrayOf(t) == PyDict(<< <<K_type, PyStr(T_array)>>, <<K_items, Leaf(t)>> >>)

Object(props, patterns) ==
    PyDict(<< <<K_type, PyStr(T_object)>>,
              <<K_properties, PyDict(props)>>,
              <<K_patternProperties, PyDict(patterns)>> >>)

\* A schema with named options of every type, an object with a named and a
\* pattern child, and a pattern property at the root.
SchemaPg ==
    Object(<< <<(<<"n">>), Leaf(T_integer)>>,
              <<(<<"a">>), Object(<< <<(<<"c">>), Leaf(T_number)>> >>,
                                  << <<(<<"x">>), Leaf(T_string)>> >>)>>,
              <<(<<"z">>), Leaf(T_null)>>,
              <<(<<"b">>), Leaf(T_boolean)>>,
              <<(<<"l">>), ArrayOf(T_integer)>> >>,
           << <<(<<".", "*">>), Leaf(T_string)>> >>)

\* A schema whose root has a property literally named KEY beside its pattern
\* property, an object reached through a pattern property, a type given as a
\* list of names, and an array that declares no items.
SchemaKc ==
    PyDict(<< <<K_properties,
                PyDict(<< <<KEY, Leaf(T_integer)>>,
                          <<(<<"m">>),
                            PyDict(<< <<K_type, PyStr(T_object)>>,
                                      <<K_patternProperties,
                                        PyDict(<< <<(<<"x">>),
                                                    Object(<< <<(<<"v">>), Leaf(T_boolean)>> >>,
                                                           <<>>)>> >>)>> >>)>>,
                          <<(<<"p">>),
                            PyDict(<< <<K_type, PyList(<<PyStr(T_integer), PyStr(T_null)>>)>> >>)>>,
                          <<(<<"w">>), Leaf(T_array)>> >>)>>,
              <<K_patternProperties, PyDict(<< <<(<<"x">>), Leaf(T_string)>> >>)>> >>)

\* A schema with no option at all.
SchemaEs == EmptyDict

\* self.client.get_service_types(project=project)
ServiceTypes ==
    PyDict(<< <<(<<"p", "g">>), PyDict(<< <<K_user_config_schema, SchemaPg>> >>)>>,
              <<(<<"k", "c">>), PyDict(<< <<K_user_config_schema, SchemaKc>> >>)>>,
              <<(<<"e", "s">>), PyDict(<< <<K_user_config_schema, SchemaEs>> >>)>> >>)

\* The service_type arguments: the three known types and an unknown one.
ServiceTypeArgs == DictKeySet(ServiceTypes) \cup {<<"z", "z">>}

\* The assignment strings of the command line.
AssignStrings ==
    { <<"a", "=", "x">>,                         \* a string through a pattern property
      <<"a", ".", "b", "=", "y">>,               \* a dotted extension of a
      <<"a", ".", "b", "=", "z", "=", "1">>,     \* the same path again, "=" in the value
      <<"n", "=", "0", "x", "1", "0">>,          \* an integer
      <<"n", "=", "x">>,                         \* not an integer
      <<"n", "o", "p", "e">>,                    \* no "="
      <<"q", ".", "r", "=", "1">>,               \* no such option
      <<"z", "=", "1">>,                         \* a type with no rule
      <<"l", "=", "1", ",", "2">>,               \* an array
      <<"b", "=", "y", "e", "s">>,               \* not a boolean token
      <<"K", "E", "Y", "=", "5">> }              \* the path KEY itself

RECURSIVE SeqsUpTo(_, _)
SeqsUpTo(S, n) ==
    IF n = 0 THEN {<<>>}
    ELSE LET shorter == SeqsUpTo(S, n - 1)
         IN  shorter \cup {Append(q, x) : q \in {r \in shorter : Len(r) = n - 1}, x \in S}

NoOutcome == Raised("", "", <<>>)

-----------------------------------------------------------------------------
(* create_user_config as a process: the entry up to the loop, one turn of *)
(* the loop, the return.                                                   *)

ConvertIdle ==
    /\ conv_schema = PyNone
    /\ conv_value = <<>>
    /\ converted = NoOutcome
    /\ assigned = NoOutcome
    /\ vpc = "idle"

TerminateIdle ==
    /\ args_force = FALSE
    /\ env_AIVEN_FORCE = PyNone
    /\ args_name = <<>>
    /\ entered = <<>>
    /\ deleted = <<>>
    /\ kpc = "idle"
    /\ kexc = ""

CreateIdle ==
    /\ args_service_type = <<>>
    /\ args_plan = PyNone
    /\ args_no_fail_if_exists = FALSE
    /\ create_service_type = PyNone
    /\ plan = PyNone
    /\ request = PyNone
    /\ spc = "idle"
    /\ sexc = ""

TableIdle ==
    /\ result = <<>>
    /\ drop_fields = {}
    /\ layout_arg = PyNone
    /\ table_layout = PyNone
    /\ widths = EmptyDict
    /\ formatted_values = <<>>
    /\ formatted_row = PyNone
    /\ vertical_width = 0
    /\ row_num = 0
    /\ lines = <<>>
    /\ tpc = "idle"
    /\ texc = ""

InitCompile ==
    /\ service_type \in ServiceTypeArgs
    /\ args_user_config \in SeqsUpTo(AssignStrings, MaxAssignments)
    /\ options = PyNone
    /\ user_config = PyNone
    /\ idx = 0
    /\ cpc = "start"
    /\ outcome = NoOutcome
    /\ TableIdle
    /\ ConvertIdle
    /\ TerminateIdle
    /\ CreateIdle

\* Lines 369-380: the empty list, the service type, the flattened schema.
CreateUserConfigBegin ==
    /\ cpc = "start"
    /\ IF args_user_config = <<>>
       THEN /\ outcome' = Returned(EmptyDict)
            /\ cpc' = "done"
            /\ UNCHANGED <<options, user_config>>
       ELSE IF ~DictHas(ServiceTypes, service_type)
       THEN /\ outcome' = Raised("UserError", "UnknownServiceType",
                                 <<PyStr(service_type),
                                   PyStr(Join(CommaSpace, DictKeys(ServiceTypes)))>>)
            /\ cpc' = "done"
            /\ UNCHANGED <<options, user_config>>
       ELSE /\ options' = collect_user_config_options(
                              DictGet(DictGet(ServiceTypes, service_type), K_user_config_schema),
                              <<>>)
            /\ user_config' = EmptyDict
            /\ cpc' = "loop"
            /\ UNCHANGED outcome
    /\ UNCHANGED <<service_type, args_user_config, idx>>
    /\ UNCHANGED <<tableVars, convertVars, terminateVars, createVars>>

\* Lines 381-409: one assignment.
CreateUserConfigAssign ==
    /\ cpc = "loop"
    /\ idx < Len(args_user_config)
    /\ LET r == ProcessAssignment(options, user_config, args_user_config[idx + 1])
       IN  IF r.ok
           THEN /\ user_config' = r.val
                /\ idx' = idx + 1
                /\ UNCHANGED <<cpc, outcome>>
           ELSE /\ outcome' = r
                /\ cpc' = "done"
                /\ UNCHANGED <<user_config, idx>>
    /\ UNCHANGED <<service_type, args_user_config, options>>
    /\ UNCHANGED <<tableVars, convertVars, terminateVars, createVars>>

\* Line 411: return user_config.
CreateUserConfigReturn ==
    /\ cpc = "loop"
    /\ idx = Len(args_user_config)
    /\ outcome' = Returned(user_config)
    /\ cpc' = "done"
    /\ UNCHANGED <<service_type, args_user_config, options, user_config, idx>>
    /\ UNCHANGED <<tableVars, convertVars, terminateVars, createVars>>

NextCompile ==
    \/ CreateUserConfigBegin
    \/ CreateUserConfigAssign
    \/ CreateUserConfigReturn

SpecCompile == InitCompile /\ [][NextCompile]_vars

-----------------------------------------------------------------------------
(* What the claims about create_user_config speak of *)

HasEq(key_value) == IndexOf(key_value, "=") > 0

\* The text before the first "=" of an assignment that has one.
PathOf(key_value) == SubSeq(key_value, 1, IndexOf(key_value, "=") - 1)

\* The text after the first "=".
RawValueOf(key_value) == SubSeq(key_value, IndexOf(key_value, "=") + 1, Len(key_value))

LastIndexOf(s, c) ==
    IF \E i \in 1..Len(s) : s[i] = c
    THEN CHOOSE i \in 1..Len(s) : s[i] = c /\ \A j \in (i + 1)..Len(s) : s[j] # c
    ELSE 0

\* The path with its final dotted segment replaced by KEY.
WithFinalSegmentKEY(path) == SubSeq(path, 1, LastIndexOf(path, ".")) \o KEY

\* The lookup of a path resolves: the path or its KEY variant is an option.
Resolves(opts, path) ==
    \/ path \in DictKeySet(opts)
    \/ WithFinalSegmentKEY(path) \in DictKeySet(opts)

Missing == [k |-> "missing"]

\* The value found by walking the segments through nested mappings.
RECURSIVE GetAt(_, _)
GetAt(conf, parts) ==
    IF parts = <<>> THEN conf
    ELSE IF IsDict(conf) /\ DictHas(conf, parts[1])
    THEN GetAt(DictGet(conf, parts[1]), Tail(parts))
    ELSE Missing

\* The segment paths of the leaves (the values that are no mapping).
RECURSIVE LeafPaths(_, _)
LeafPaths(conf, prefix) ==
    IF IsDict(conf)
    THEN UNION {LeafPaths(conf.items[i][2], Append(prefix, conf.items[i][1])) :
                    i \in 1..Len(conf.items)}
    ELSE {prefix}

\* The assignments the loop has stored so far.
Stored == 1..idx

\* The loop is past the entry: the flattened schema exists.
Flattened == cpc \in {"loop", "done"} /\ options # PyNone

\* The call ended on assignment number idx + 1.
FailedInLoop == Flattened /\ cpc = "done" /\ ~outcome.ok /\ idx < Len(args_user_config)

\* C1: the lookup of an assignment's path resolves exactly when the path, or the
\* path with its final dotted segment replaced by KEY, is a key of the
\* flattened schema: every stored assignment resolved; the call fails with
\* UnknownOption (a UserError naming the path and listing the option paths, or
\* "none") exactly when the path of the assignment it stopped on does not
\* resolve; and a stored value is at the path the user typed, the configuration
\* holding no path nobody typed (none ending in KEY for a value that resolved
\* through the fallback).
C1_LookupExactThenKeyFallback ==
    Flattened =>
        /\ \A i \in Stored : Resolves(options, PathOf(args_user_config[i]))
        /\ (FailedInLoop /\ HasEq(args_user_config[idx + 1])) =>
               LET path == PathOf(args_user_config[idx + 1])
               IN  /\ (outcome.err = "UnknownOption") <=> ~Resolves(options, path)
                   /\ outcome.err = "UnknownOption" =>
                          /\ outcome.exc = "UserError"
                          /\ outcome.args[1] = PyStr(path)
                          /\ \A o \in DictKeySet(options) : IsSubstring(o, outcome.args[2].s)
                          /\ DictKeySet(options) = {} => outcome.args[2].s = S_none
        /\ (cpc = "loop" /\ idx >= 1) =>
               LET at == GetAt(user_config, Split(PathOf(args_user_config[idx]), "."))
               IN  at # Missing /\ ~IsDict(at)
        /\ cpc = "loop" =>
               LeafPaths(user_config, <<>>) \subseteq
                   {Split(PathOf(args_user_config[i]), ".") : i \in Stored}

\* C1's case: a value that resolved only through the KEY fallback has been
\* stored under the path the user typed.
C1_Witness ==
    /\ cpc = "loop"
    /\ idx >= 1
    /\ LET path == PathOf(args_user_config[idx])
       IN  /\ path \notin DictKeySet(options)
           /\ WithFinalSegmentKEY(path) \in DictKeySet(options)
           /\ GetAt(user_config, Split(path, ".")) # Missing

\* The descriptor the lookup of a resolving path gives: the path's own when it
\* is an option, that of its KEY variant otherwise.
DescriptorOf(opts, path) ==
    IF path \in DictKeySet(opts) THEN DictGet(opts, path)
    ELSE DictGet(opts, WithFinalSegmentKEY(path))

\* A path of fewer segments that the other path starts with.
ProperDottedPrefix(p, q) ==
    LET ps == Split(p, ".")
        qs == Split(q, ".")
    IN  Len(ps) < Len(qs) /\ SubSeq(qs, 1, Len(ps)) = ps

Taxonomy == {"InvalidAssignmentSyntax", "UnknownOption", "InvalidValue", "UnsupportedType"}

\* The error of the taxonomy an assignment has on its own, "" when it is valid.
ErrorOf(opts, key_value) ==
    IF ~HasEq(key_value) THEN "InvalidAssignmentSyntax"
    ELSE IF ~Resolves(opts, PathOf(key_value)) THEN "UnknownOption"
    ELSE LET r == convert_str_to_value(DescriptorOf(opts, PathOf(key_value)),
                                       RawValueOf(key_value))
         IN  IF r.ok THEN ""
             ELSE IF r.exc = "ValueError" THEN "InvalidValue"
             ELSE IF r.exc = "UserError" THEN r.err
             ELSE ""

Invalid == {i \in 1..Len(args_user_config) : ErrorOf(options, args_user_config[i]) # ""}

FirstInvalid == CHOOSE i \in Invalid : \A j \in Invalid : i <= j

\* C2: whenever some assignment of the list is invalid, the call returns no
\* configuration and raises the error of the first invalid assignment.
C2_FirstInvalidAssignmentAborts ==
    (Flattened /\ cpc = "done" /\ Invalid # {}) =>
        /\ ~outcome.ok
        /\ outcome.exc = "UserError"
        /\ outcome.err = ErrorOf(options, args_user_config[FirstInvalid])
        /\ idx = FirstInvalid - 1

\* C2 for the lists in which no path is a proper dotted prefix of another.
C2_FirstInvalidWhenNoPrefix ==
    (Flattened /\ cpc = "done" /\ Invalid # {}
        /\ \A i, j \in 1..(FirstInvalid - 1) :
               ~ProperDottedPrefix(PathOf(args_user_config[i]), PathOf(args_user_config[j]))) =>
        /\ ~outcome.ok
        /\ outcome.exc = "UserError"
        /\ outcome.err = ErrorOf(options, args_user_config[FirstInvalid])
        /\ idx = FirstInvalid - 1

\* C3: a call on a known schema ends by returning a configuration or by raising
\* a UserError of the taxonomy.
C3_ReturnsOrTaxonomyError ==
    (cpc = "done" /\ DictHas(ServiceTypes, service_type)) =>
        \/ outcome.ok /\ IsDict(outcome.val)
        \/ ~outcome.ok /\ outcome.exc = "UserError" /\ outcome.err \in Taxonomy

AllValid == Invalid = {}

NoProperPrefix ==
    \A i, j \in 1..Len(args_user_config) :
        ~ProperDottedPrefix(PathOf(args_user_config[i]), PathOf(args_user_config[j]))

\* The last assignment of the list to the path.
LastTo(path) ==
    CHOOSE i \in 1..Len(args_user_config) :
        /\ PathOf(args_user_config[i]) = path
        /\ \A j \in (i + 1)..Len(args_user_config) : PathOf(args_user_config[j]) # path

Coerced(key_value) ==
    convert_str_to_value(DescriptorOf(options, PathOf(key_value)), RawValueOf(key_value)).val

\* C4: a list of valid assignments, no path a proper dotted prefix of another,
\* compiles without an error to a configuration whose leaves are exactly the
\* assigned paths, one leaf a path, each holding the coerced value of the last
\* assignment to it.
C4_LastWriteWins ==
    (Flattened /\ cpc = "done" /\ AllValid /\ NoProperPrefix) =>
        LET paths == {PathOf(args_user_config[i]) : i \in 1..Len(args_user_config)}
        IN  /\ outcome.ok
            /\ LeafPaths(outcome.val, <<>>) = {Split(path, ".") : path \in paths}
            /\ Cardinality(LeafPaths(outcome.val, <<>>)) = Cardinality(paths)
            /\ \A path \in paths :
                   GetAt(outcome.val, Split(path, ".")) = Coerced(args_user_config[LastTo(path)])

\* C4's case: a path assigned twice, with two values, in a list that compiled.
C4_Witness ==
    /\ Flattened /\ cpc = "done" /\ AllValid /\ NoProperPrefix
    /\ outcome.ok
    /\ \E i, j \in 1..Len(args_user_config) :
           /\ i < j
           /\ PathOf(args_user_config[i]) = PathOf(args_user_config[j])
           /\ Coerced(args_user_config[i]) # Coerced(args_user_config[j])
           /\ j = LastTo(PathOf(args_user_config[j]))
           /\ GetAt(outcome.val, Split(PathOf(args_user_config[j]), "."))
                  = Coerced(args_user_config[j])

\* prefix.segment, or the segment alone at the root.
Dotted(prefix, segment) == IF prefix = <<>> THEN segment ELSE prefix \o <<".">> \o segment

\* The non-object nodes of a schema tree, each with its dotted path from the
\* root: the property name for a child of "properties", KEY for a child of
\* "patternProperties".
RECURSIVE SchemaLeaves(_, _)
ChildLeaves(child, path) ==
    IF DictGet(child, K_type) = PyStr(T_object) THEN SchemaLeaves(child, path)
    ELSE {<<path, child>>}

SchemaLeaves(node, prefix) ==
    LET props == DictGetOr(node, K_properties, EmptyDict).items
        patterns == DictGetOr(node, K_patternProperties, EmptyDict).items
    IN  UNION ({ChildLeaves(props[i][2], Dotted(prefix, props[i][1])) : i \in 1..Len(props)}
               \cup {ChildLeaves(patterns[i][2], Dotted(prefix, KEY)) : i \in 1..Len(patterns)})

SchemaOf(name) == DictGet(DictGet(ServiceTypes, name), K_user_config_schema)

\* C5: the flattened schema has one key for every non-object node of the schema
\* tree, its dotted path, mapped to the node's own descriptor, and no other key.
C5_FlattenKeepsEveryLeaf ==
    Flattened =>
        {<<o, DictGet(options, o)>> : o \in DictKeySet(options)}
            = SchemaLeaves(SchemaOf(service_type), <<>>)

-----------------------------------------------------------------------------
(* pretty.py: format_item *)

S_null == <<"n", "u", "l", "l">>
S_time == <<"_", "t", "i", "m", "e">>
Quote == "\""
Backslash == "\\"

\* str(n) of an integer
RECURSIVE NatToStr(_)
NatToStr(n) ==
    IF n < 10 THEN <<Chars[Ord("0") + n]>>
    ELSE NatToStr(n \div 10) \o <<Chars[Ord("0") + (n % 10)]>>

IntToStr(n) == IF n < 0 THEN <<"-">> \o NatToStr(0 - n) ELSE NatToStr(n)

\* repr of a float m * 10^e in positional notation
FloatToStr(m, e) ==
    LET abs == IF m < 0 THEN 0 - m ELSE m
        sign == IF m < 0 THEN <<"-">> ELSE <<>>
        digits == NatToStr(abs)
        padded == Repeat("0", 1 - e - Len(digits)) \o digits
    IN  IF e >= 0 THEN sign \o digits \o Repeat("0", e) \o <<".", "0">>
        ELSE sign \o SubSeq(padded, 1, Len(padded) + e) \o <<".">>
                  \o SubSeq(padded, Len(padded) + e + 1, Len(padded))

\* The body of a JSON string: the quote and the backslash escaped.
RECURSIVE JsonEscape(_)
JsonEscape(s) ==
    IF s = <<>> THEN <<>>
    ELSE (IF s[1] \in {Quote, Backslash} THEN <<Backslash, s[1]>> ELSE <<s[1]>>)
         \o JsonEscape(Tail(s))

\* json.dumps(v, sort_keys=sortKeys)
RECURSIVE JsonDumps(_, _)
JsonDumps(v, sortKeys) ==
    IF v.k = "str" THEN <<Quote>> \o JsonEscape(v.s) \o <<Quote>>
    ELSE IF v.k = "int" THEN IntToStr(v.n)
    ELSE IF v.k = "float" THEN FloatToStr(v.m, v.e)
    ELSE IF v.k = "bool" THEN (IF v.b THEN S_true ELSE S_false)
    ELSE IF v.k = "none" THEN S_null
    ELSE IF v.k = "list"
    THEN <<"[">> \o Join(CommaSpace, [i \in 1..Len(v.items) |-> JsonDumps(v.items[i], sortKeys)])
                 \o <<"]">>
    ELSE LET items == IF sortKeys THEN SortedItems(v.items) ELSE v.items
         IN  <<"{">> \o Join(CommaSpace,
                             [i \in 1..Len(items) |->
                                 <<Quote>> \o JsonEscape(items[i][1]) \o <<Quote, ":", " ">>
                                 \o JsonDumps(items[i][2], sortKeys)])
                     \o <<"}">>

\* format_item(key, value); key is a str or None.
RECURSIVE format_item(_, _)
format_item(key, value) ==
    IF value.k = "list"
    THEN Join(CommaSpace, [i \in 1..Len(value.items) |-> format_item(PyNone, value.items[i])])
    ELSE IF value.k = "dict" THEN JsonDumps(value, TRUE)
    ELSE IF value.k = "str"
    THEN LET shown == IF /\ Truthy(key)
                         /\ EndsWith(key.s, S_time)
                         /\ EndsWith(value.s, <<"Z">>)
                         /\ IndexOf(value.s, ".") > 0
                      THEN Split1(value.s, ".")[1] \o <<"Z">>
                      ELSE value.s
             json_v == JsonDumps(PyStr(shown), FALSE)
         IN  IF json_v = <<Quote>> \o shown \o <<Quote>> THEN shown ELSE json_v
    ELSE JsonDumps(value, FALSE)

-----------------------------------------------------------------------------
(* pretty.py: print_table's helpers *)

\* fnmatch.fnmatch(name, pattern) on a case-sensitive platform, for patterns of
\* literal characters, * and ?.
RECURSIVE FnMatch(_, _)
FnMatch(name, pattern) ==
    IF pattern = <<>> THEN name = <<>>
    ELSE IF pattern[1] = "*"
    THEN \/ FnMatch(name, Tail(pattern))
         \/ name # <<>> /\ FnMatch(Tail(name), pattern)
    ELSE /\ name # <<>>
         /\ pattern[1] = "?" \/ pattern[1] = name[1]
         /\ FnMatch(Tail(name), Tail(pattern))

\* iter_values(key, value): the (path, value) pairs of the values that are no
\* dict, depth first in key order.
RECURSIVE iter_values(_, _)
RECURSIVE IterItems(_, _)
IterItems(key, items) ==
    IF items = <<>> THEN <<>>
    ELSE iter_values((IF key # <<>> THEN key \o <<".">> ELSE <<>>) \o items[1][1], items[1][2])
         \o IterItems(key, Tail(items))

iter_values(key, value) ==
    IF ~IsDict(value) THEN << <<key, value>> >>
    ELSE IterItems(key, value.items)

\* The (subkey, subvalue) pairs the two inner loops of the formatting go
\* through for one record: those of every key that is not dropped.
RECURSIVE RecordPairs(_, _)
RecordPairs(items, drop) ==
    IF items = <<>> THEN <<>>
    ELSE (IF items[1][1] \notin drop THEN iter_values(items[1][1], items[1][2]) ELSE <<>>)
         \o RecordPairs(Tail(items), drop)

\* An inner loop whose widths forget the records before.
RECURSIVE FormatPairsLatestWidth(_, _, _)
FormatPairsLatestWidth(pairs, row, w) ==
    IF pairs = <<>> THEN [row |-> row, widths |-> w]
    ELSE LET subkey == pairs[1][1]
             formatted == format_item(PyStr(subkey), pairs[1][2])
         IN  FormatPairsLatestWidth(Tail(pairs),
                         DictSet(row, subkey, PyStr(formatted)),
                         DictSet(w, subkey, PyInt(Max2(Max2(Len(subkey), Len(formatted)), 1))))

\* The body of the inner loop over the pairs: the formatted row and the widths
\* after them.
RECURSIVE FormatPairs(_, _, _)
FormatPairs(pairs, row, w) ==
    IF pairs = <<>> THEN [row |-> row, widths |-> w]
    ELSE LET subkey == pairs[1][1]
             formatted == format_item(PyStr(subkey), pairs[1][2])
             old == DictGetOr(w, subkey, PyInt(1)).n
         IN  FormatPairs(Tail(pairs),
                         DictSet(row, subkey, PyStr(formatted)),
                         DictSet(w, subkey, PyInt(Max2(Max2(Len(subkey), Len(formatted)), old))))

\* f.split(".", 1)[-1]: the name without its first segment, or the whole name.
Deprefixed(f) == LET parts == Split1(f, ".") IN parts[Len(parts)]

MaxOf(S) == CHOOSE x \in S : \A y \in S : y <= x

\* longest(vf): over the fields of the row the closure sees.
Longest(row, vf) ==
    LET lengths == {Len(Deprefixed(f)) : f \in {g \in DictKeySet(row) : FnMatch(g, vf)}}
    IN  IF lengths # {} THEN MaxOf(lengths) ELSE 0

\* The keys of a dict in the order they were put in it.
KeysInInsertionOrder(d) == [i \in 1..Len(d.items) |-> d.items[i][1]]

\* The keys of a sorted dict
SortedKeys(d) == LET items == SortedItems(d.items) IN [i \in 1..Len(items) |-> items[i][1]]

\* Detail lines in the order the fields were put in the row.
DetailLinesUnsorted(row, vertical_field, width) ==
    LET matching == SelectSeq(row.items, LAMBDA kv : FnMatch(kv[1], vertical_field))
    IN  [i \in 1..Len(matching) |->
            <<" ", " ", " ", " ">> \o Ljust(Deprefixed(matching[i][1]), width)
            \o <<" ", "=", " ">> \o matching[i][2].s]

\* The detail lines of one vertical pattern: the matching fields of the row,
\* sorted by field name.
DetailLines(row, vertical_field, width) ==
    LET items == SortedItems(row.items)
        matching == SelectSeq(items, LAMBDA kv : FnMatch(kv[1], vertical_field))
    IN  [i \in 1..Len(matching) |->
            <<" ", " ", " ", " ">> \o Ljust(Deprefixed(matching[i][1]), width)
            \o <<" ", "=", " ">> \o matching[i][2].s]

RECURSIVE Concat(_)
Concat(seqs) == IF seqs = <<>> THEN <<>> ELSE seqs[1] \o Concat(Tail(seqs))

TwoSpaces == <<" ", " ">>

-----------------------------------------------------------------------------
(* The inputs of print_table *)

\* The longest sequence of records handed to one call.
MaxRecords == 2

\* What the sequences are made of: records with nested mappings, records
\* that lack fields of the others, a record with no field, values that are
\* no mapping, and a record with a nested mapping that has no key.
Elements ==
    { PyDict(<< <<(<<"a">>), PyInt(1)>>,
                <<(<<"u">>), PyDict(<< <<(<<"l", "o", "n", "g">>), PyInt(1)>>,
                                       <<(<<"k">>), PyStr(<<"v", " ", "w">>)>> >>)>> >>),
      PyDict(<< <<(<<"u">>), PyDict(<< <<(<<"x">>), PyList(<<PyInt(1), PyStr(<<"y">>)>>)>> >>)>>,
                <<(<<"a">>), PyInt(23)>> >>),
      PyDict(<< <<(<<"b">>), PyStr(<<"x", "\"", "z">>)>>,
                <<(<<"a">>), PyNone>> >>),
      PyDict(<< <<(<<"b">>), PyBool(TRUE)>>,
                <<(<<"c", "_", "t", "i", "m", "e">>), PyStr(<<"1", ".", "5", "Z">>)>> >>),
      EmptyDict,
      PyStr(<<"x">>),
      PyList(<<PyInt(1), PyDict(<< <<(<<"b">>), PyInt(2)>>, <<(<<"a">>), PyNone>> >>)>>),
      PyDict(<< <<(<<"e">>), EmptyDict>>, <<(<<"a">>), PyInt(5)>> >>) }

\* The table_layout arguments: none, a flat list of fields, a list of rows.
Layouts ==
    { PyNone,
      PyList(<<PyStr(<<"a">>), PyStr(<<"b">>)>>),
      PyList(<<PyList(<<PyStr(<<"a">>)>>)>>),
      PyList(<<PyList(<<PyStr(<<"a">>)>>), PyStr(<<"u", ".", "*">>)>>),
      PyList(<<PyList(<<PyStr(<<"b">>), PyStr(<<"a">>)>>),
               PyStr(<<"u", ".", "?">>), PyStr(<<"*", "e">>)>>),
      PyList(<<PyList(<<PyStr(<<"a">>)>>),
               PyStr(<<"u", ".", "l", "*">>), PyStr(<<"u", ".", "*">>)>>) }

\* The drop_fields arguments.
DropSets == {{}, {<<"u">>}}

CompileIdle ==
    /\ service_type = <<>>
    /\ args_user_config = <<>>
    /\ options = PyNone
    /\ user_config = PyNone
    /\ idx = 0
    /\ cpc = "idle"
    /\ outcome = NoOutcome

InitTable ==
    /\ result \in SeqsUpTo(Elements, MaxRecords)
    /\ drop_fields \in DropSets
    /\ layout_arg \in Layouts
    /\ table_layout = layout_arg
    /\ widths = EmptyDict
    /\ formatted_values = <<>>
    /\ formatted_row = PyNone
    /\ vertical_width = 0
    /\ row_num = 0
    /\ lines = <<>>
    /\ tpc = "start"
    /\ texc = ""
    /\ CompileIdle
    /\ ConvertIdle
    /\ TerminateIdle
    /\ CreateIdle

-----------------------------------------------------------------------------
(* print_table as a process *)

\* Lines 42-48: nothing to print, or a list of values that are no records.
PrintTableBegin ==
    /\ tpc = "start"
    /\ tpc' = IF result = <<>> THEN "done"
              ELSE IF ~IsDict(result[1]) THEN "list"
              ELSE "format"
    /\ UNCHANGED <<result, drop_fields, layout_arg, table_layout, widths, formatted_values,
                   formatted_row, vertical_width, row_num, lines, texc>>
    /\ UNCHANGED <<compileVars, convertVars, terminateVars, createVars>>

\* print_list, lines 36-37: one item.
PrintListItem ==
    /\ tpc = "list"
    /\ lines' = Append(lines, format_item(PyNone, result[row_num + 1]))
    /\ row_num' = row_num + 1
    /\ tpc' = IF row_num + 1 = Len(result) THEN "done" ELSE "list"
    /\ UNCHANGED <<result, drop_fields, layout_arg, table_layout, widths, formatted_values,
                   formatted_row, vertical_width, texc>>
    /\ UNCHANGED <<compileVars, convertVars, terminateVars, createVars>>

\* Lines 61-68: one item of the formatting loop.  The new row is appended before
\* item.items() is called, which a value that is no dict does not have.
PrintTableFormat ==
    /\ tpc = "format"
    /\ LET item == result[Len(formatted_values) + 1]
           done == FormatPairs(RecordPairs(item.items, drop_fields), EmptyDict, widths)
       IN  IF ~IsDict(item)
           THEN /\ formatted_row' = EmptyDict
                /\ formatted_values' = Append(formatted_values, EmptyDict)
                /\ texc' = "AttributeError"
                /\ tpc' = "done"
                /\ UNCHANGED widths
           ELSE /\ formatted_row' = done.row
                /\ formatted_values' = Append(formatted_values, done.row)
                /\ widths' = done.widths
                /\ tpc' = IF Len(formatted_values) + 1 = Len(result) THEN "layout" ELSE "format"
                /\ UNCHANGED texc
    /\ UNCHANGED <<result, drop_fields, layout_arg, table_layout, vertical_width, row_num, lines>>
    /\ UNCHANGED <<compileVars, convertVars, terminateVars, createVars>>

\* Lines 71-84: the layout, the width of the detail names, the two header lines.
\* table_layout[0] of an empty list is an IndexError; widths[f] of a field no
\* record has is a KeyError, raised before the header is printed.
PrintTableHeader ==
    /\ tpc = "layout"
    /\ LET given == IF table_layout = PyNone
                    THEN PyList([i \in 1..Len(widths.items) |-> PyStr(SortedKeys(widths)[i])])
                    ELSE table_layout
           layout == IF given.items # <<>> /\ given.items[1].k # "list"
                     THEN PyList(<<given>>)
                     ELSE given
           horizontal_fields == layout.items[1].items
           vertical == Tail(layout.items)
       IN  IF given.items = <<>>
           THEN /\ texc' = "IndexError"
                /\ tpc' = "done"
                /\ table_layout' = given
                /\ UNCHANGED <<vertical_width, lines>>
           ELSE /\ table_layout' = layout
                /\ vertical_width' =
                       IF Len(layout.items) > 1
                       THEN MaxOf({Longest(formatted_row, vertical[i].s) : i \in 1..Len(vertical)})
                       ELSE 0
                /\ IF \E i \in 1..Len(horizontal_fields) : ~DictHas(widths, horizontal_fields[i].s)
                   THEN /\ texc' = "KeyError"
                        /\ tpc' = "done"
                        /\ UNCHANGED lines
                   ELSE /\ lines' = lines \o
                               << Join(TwoSpaces,
                                       [i \in 1..Len(horizontal_fields) |->
                                           Ljust(Upper(horizontal_fields[i].s),
                                                 DictGet(widths, horizontal_fields[i].s).n)]),
                                  Join(TwoSpaces,
                                       [i \in 1..Len(horizontal_fields) |->
                                           Repeat("=", DictGet(widths, horizontal_fields[i].s).n)]) >>
                        /\ tpc' = "rows"
                        /\ UNCHANGED texc
    /\ UNCHANGED <<result, drop_fields, layout_arg, widths, formatted_values, formatted_row, row_num>>
    /\ UNCHANGED <<compileVars, convertVars, terminateVars, createVars>>

\* Lines 85-92: one record: the blank line, the data row, the detail lines.
PrintTableRow ==
    /\ tpc = "rows"
    /\ LET row == formatted_values[row_num + 1]
           horizontal_fields == table_layout.items[1].items
           vertical == Tail(table_layout.items)
           blank == IF Len(table_layout.items) > 1 /\ row_num > 0 THEN << <<>> >> ELSE <<>>
           data == Join(TwoSpaces,
                        [i \in 1..Len(horizontal_fields) |->
                            Ljust(DictGetOr(row, horizontal_fields[i].s, PyStr(<<>>)).s,
                                  DictGet(widths, horizontal_fields[i].s).n)])
           details == Concat([i \in 1..Len(vertical) |->
                                 DetailLines(row, vertical[i].s, vertical_width)])
       IN  /\ formatted_row' = row
           /\ lines' = lines \o blank \o <<data>> \o details
    /\ row_num' = row_num + 1
    /\ tpc' = IF row_num + 1 = Len(formatted_values) THEN "done" ELSE "rows"
    /\ UNCHANGED <<result, drop_fields, layout_arg, table_layout, widths, formatted_values,
                   vertical_width, texc>>
    /\ UNCHANGED <<compileVars, convertVars, terminateVars, createVars>>

NextTable ==
    \/ PrintTableBegin
    \/ PrintListItem
    \/ PrintTableFormat
    \/ PrintTableHeader
    \/ PrintTableRow

SpecTable == InitTable /\ [][NextTable]_vars

-----------------------------------------------------------------------------
(* What the claims about print_table speak of *)

RECURSIVE Sum(_, _)
\* f[1] + ... + f[n]
Sum(f, n) == IF n <= 0 THEN 0 ELSE f[n] + Sum(f, n - 1)

NumRecords == Len(result)

AllRecords == \A r \in 1..Len(result) : IsDict(result[r])

\* The formatting loop went through every record.
FormattedAll ==
    /\ tpc \in {"layout", "rows", "done"}
    /\ result # <<>>
    /\ AllRecords
    /\ Len(formatted_values) = Len(result)

\* The layout is a list of rows whose row 0 names at least one field.
Row0NamesFields ==
    /\ table_layout.k = "list"
    /\ table_layout.items # <<>>
    /\ table_layout.items[1].k = "list"
    /\ table_layout.items[1].items # <<>>

Row0 == [i \in 1..Len(table_layout.items[1].items) |-> table_layout.items[1].items[i].s]

VerticalPatterns == [i \in 1..(Len(table_layout.items) - 1) |-> table_layout.items[i + 1].s]

HasVerticalRows == Len(table_layout.items) > 1

\* The flattened fields of record r.
FieldsOf(r) == DictKeySet(formatted_values[r])

\* The formatted value of field f of record r.
ValueOf(r, f) == DictGet(formatted_values[r], f).s

\* The fields of record r a vertical pattern matches.
Matching(r, pattern) == {f \in FieldsOf(r) : FnMatch(f, pattern)}

\* The number of detail lines under the data row of record r.
NumDetails(r) ==
    Sum([i \in 1..Len(VerticalPatterns) |-> Cardinality(Matching(r, VerticalPatterns[i]))],
        Len(VerticalPatterns))

\* The lines of the block of record r: its data row and its detail lines.
BlockLen(r) == 1 + NumDetails(r)

\* Where the data row of record r is in the output: after the two header lines,
\* the blocks of the records before it and the blank lines between blocks.
DataRowIndex(r) ==
    2 + Sum([q \in 1..(r - 1) |-> BlockLen(q)], r - 1)
      + (IF HasVerticalRows THEN r - 1 ELSE 0) + 1

ColumnWidth(i) == DictGet(widths, Row0[i]).n

\* Column i of a table line: the characters from the column's offset on.
Cell(line, i) ==
    LET offset == Sum([j \in 1..(i - 1) |-> ColumnWidth(j) + 2], i - 1)
    IN  SubSeq(line, offset + 1, offset + ColumnWidth(i))

\* The two characters after column i, when it is not the last one.
Gap(line, i) ==
    LET offset == Sum([j \in 1..i |-> ColumnWidth(j) + 2], i)
    IN  SubSeq(line, offset - 1, offset)

TableLineLength == Sum([j \in 1..Len(Row0) |-> ColumnWidth(j) + 2], Len(Row0)) - 2

Spaces(n) == [i \in 1..n |-> " "]

BlankLines == {i \in 1..Len(lines) : lines[i] = <<>>}

\* C6: with records only and a layout whose row 0 names fields, rendering
\* completes, prints one data row a record, and a row-0 field a record lacks
\* is, in that record's data row, as many spaces as the column is wide.
C6_MissingFieldRendersEmpty ==
    (tpc = "done" /\ result # <<>> /\ AllRecords /\ Row0NamesFields) =>
        /\ texc = ""
        /\ \A r \in 1..NumRecords :
               /\ DataRowIndex(r) <= Len(lines)
               /\ \A i \in 1..Len(Row0) :
                      Row0[i] \notin FieldsOf(r) =>
                          Cell(lines[DataRowIndex(r)], i) = Spaces(ColumnWidth(i))

\* C6 for the layouts whose row-0 fields are each in some record.
C6_MissingFieldWhenKnown ==
    (tpc = "done" /\ result # <<>> /\ AllRecords /\ Row0NamesFields
        /\ \A i \in 1..Len(Row0) : Row0[i] \in DictKeySet(widths)) =>
        /\ texc = ""
        /\ \A r \in 1..NumRecords :
               /\ DataRowIndex(r) <= Len(lines)
               /\ \A i \in 1..Len(Row0) :
                      Row0[i] \notin FieldsOf(r) =>
                          Cell(lines[DataRowIndex(r)], i) = Spaces(ColumnWidth(i))

\* C7: rendering ends without an exception whatever the input is (the layouts
\* that name a field no record has are left to C6); an empty sequence prints
\* nothing; a sequence of values that are no mappings prints one formatted
\* line an element, in input order.
C7_RenderingNeverRaises ==
    (tpc = "done" /\ texc # "KeyError") =>
        /\ texc = ""
        /\ result = <<>> => lines = <<>>
        /\ (\A r \in 1..Len(result) : ~IsDict(result[r])) =>
               lines = [r \in 1..Len(result) |-> format_item(PyNone, result[r])]

\* The de-prefixed names of all the fields, of all the records, that a
\* vertical pattern matches.
MatchedNames ==
    UNION {{Deprefixed(f) : f \in Matching(r, VerticalPatterns[i])} :
               r \in 1..NumRecords, i \in 1..Len(VerticalPatterns)}

\* C8: with vertical rows, the width the detail names are padded to is the
\* greatest length of a de-prefixed name over the matching fields of all the
\* records, so that every detail line has its " = " in the same column.
C8_VerticalWidthOverAllRecords ==
    (FormattedAll /\ tpc \in {"rows", "done"} /\ texc = "" /\ HasVerticalRows) =>
        vertical_width = MaxOf({0} \cup {Len(name) : name \in MatchedNames})

\* What the width is: the greatest such length over the fields of the last
\* record alone.
C8_VerticalWidthOfLastRecord ==
    (FormattedAll /\ tpc \in {"rows", "done"} /\ texc = "" /\ HasVerticalRows) =>
        vertical_width =
            MaxOf({0} \cup UNION {{Len(Deprefixed(f)) : f \in Matching(NumRecords, VerticalPatterns[i])} :
                                      i \in 1..Len(VerticalPatterns)})

\* C9: with at least one vertical row and a non-empty row 0, rendering N >= 1
\* records prints exactly N - 1 blank lines, one right before the data row of
\* each record but the first; with row 0 alone it prints none.
C9_BlankLinesBetweenBlocks ==
    (tpc = "done" /\ result # <<>> /\ AllRecords /\ Row0NamesFields) =>
        IF HasVerticalRows
        THEN /\ Cardinality(BlankLines) = NumRecords - 1
             /\ BlankLines = {DataRowIndex(r) - 1 : r \in 2..NumRecords}
        ELSE BlankLines = {}

\* C9 for the calls that end without an exception.
C9_BlankLinesWhenRendered ==
    (tpc = "done" /\ result # <<>> /\ AllRecords /\ Row0NamesFields /\ texc = "") =>
        /\ Len(lines) = DataRowIndex(NumRecords) + NumDetails(NumRecords)
        /\ IF HasVerticalRows
           THEN /\ Cardinality(BlankLines) = NumRecords - 1
                /\ BlankLines = {DataRowIndex(r) - 1 : r \in 2..NumRecords}
           ELSE BlankLines = {}

\* The records that have field f.
Having(f) == {r \in 1..NumRecords : f \in FieldsOf(r)}

\* C10: once every record is formatted, the width of each field some record
\* has is the greatest of 1, the length of its name and the lengths of its
\* formatted values; in the table printed, the header cell (the name in upper
\* case), the separator cell (all "=") and every data cell (the formatted value
\* or nothing) of a column are padded with spaces to exactly that width, two
\* spaces are between two columns, and all these lines have the same length.
C10_ColumnWidth ==
    FormattedAll =>
        /\ DictKeySet(widths) = UNION {FieldsOf(r) : r \in 1..NumRecords}
        /\ \A f \in DictKeySet(widths) :
               /\ DictGet(widths, f).n = MaxOf({1, Len(f)} \cup {Len(ValueOf(r, f)) : r \in Having(f)})
               /\ \A r \in Having(f) : Len(ValueOf(r, f)) <= DictGet(widths, f).n
        /\ (tpc \in {"rows", "done"} /\ texc = "") =>
               /\ Len(lines[1]) = TableLineLength
               /\ Len(lines[2]) = TableLineLength
               /\ \A i \in 1..Len(Row0) :
                      /\ Cell(lines[1], i) = Upper(Row0[i]) \o Spaces(ColumnWidth(i) - Len(Row0[i]))
                      /\ Cell(lines[2], i) = [j \in 1..ColumnWidth(i) |-> "="]
                      /\ i < Len(Row0) => Gap(lines[1], i) = TwoSpaces /\ Gap(lines[2], i) = TwoSpaces
               /\ \A r \in 1..row_num :
                      LET data == lines[DataRowIndex(r)]
                      IN  /\ Len(data) = TableLineLength
                          /\ \A i \in 1..Len(Row0) :
                                 LET shown == IF Row0[i] \in FieldsOf(r)
                                              THEN ValueOf(r, Row0[i]) ELSE <<>>
                                 IN  /\ Cell(data, i) = shown \o Spaces(ColumnWidth(i) - Len(shown))
                                     /\ i < Len(Row0) => Gap(data, i) = TwoSpaces

\* C10's case: a table of two records is printed in which a column is wider
\* than its name because of one record's value, and another record's value for
\* it is shorter.
C10_Witness ==
    /\ FormattedAll /\ tpc = "done" /\ texc = ""
    /\ NumRecords >= 2
    /\ \E i \in 1..Len(Row0) :
           /\ ColumnWidth(i) > Len(Row0[i])
           /\ \E r \in 1..NumRecords :
                  /\ Row0[i] \in FieldsOf(r)
                  /\ Len(ValueOf(r, Row0[i])) < ColumnWidth(i)
                  /\ Len(lines[DataRowIndex(r)]) = TableLineLength

-----------------------------------------------------------------------------
(* The order of the detail lines *)

\* The place of field f among the fields of S in alphabetical order.
RankIn(S, f) == Cardinality({g \in S : StrLess(g, f)}) + 1

\* Where the detail line of field f of record r under vertical pattern i is in
\* the output: below the record's data row, after the lines of the patterns
\* listed before i, at the field's alphabetical place among those i matches.
DetailIndex(r, i, f) ==
    DataRowIndex(r)
    + Sum([j \in 1..(i - 1) |-> Cardinality(Matching(r, VerticalPatterns[j]))], i - 1)
    + RankIn(Matching(r, VerticalPatterns[i]), f)

\* line is the detail line of a field: four spaces, the de-prefixed name,
\* spaces, " = " and the formatted value.
IsDetailOf(line, f, value) ==
    LET name == Deprefixed(f)
        pad == Len(line) - (4 + Len(name) + 3 + Len(value))
    IN  /\ pad >= 0
        /\ line = Spaces(4) \o name \o Spaces(pad) \o <<" ", "=", " ">> \o value

\* The lines printed for the records the print loop has gone through.
PrintedThrough(n) == IF n = 0 THEN 2 ELSE DataRowIndex(n) + NumDetails(n)

\* C11: in a printed table, the block of each record is its data row followed
\* by exactly one detail line for each pair of a vertical pattern and a field
\* of that record the pattern matches: the patterns in the order the layout
\* lists them, the fields of one pattern in alphabetical order of their full
\* paths, each line showing the de-prefixed name and that record's formatted
\* value.  No other line is in the block, so that a field no pattern matches
\* has no detail line and no detail line is under another record's data row.
C11_DetailLinesOrder ==
    (FormattedAll /\ tpc \in {"rows", "done"} /\ texc = "") =>
        /\ Len(lines) = PrintedThrough(row_num)
        /\ \A r \in 1..row_num :
               \A i \in 1..Len(VerticalPatterns) :
                   \A f \in Matching(r, VerticalPatterns[i]) :
                       IsDetailOf(lines[DetailIndex(r, i, f)], f, ValueOf(r, f))

\* C11's case: a table of two records is printed in which a record has a field
\* under a pattern listed first and, under a pattern listed later, two fields of
\* which one is alphabetically before the field of the first pattern.
C11_Witness ==
    /\ FormattedAll /\ tpc = "done" /\ texc = ""
    /\ NumRecords >= 2
    /\ \E r \in 1..NumRecords :
           \E i \in 1..Len(VerticalPatterns), j \in 1..Len(VerticalPatterns) :
               /\ i < j
               /\ Cardinality(Matching(r, VerticalPatterns[j])) >= 2
               /\ \E f \in Matching(r, VerticalPatterns[i]), g \in Matching(r, VerticalPatterns[j]) :
                      /\ StrLess(g, f)
                      /\ DetailIndex(r, i, f) < DetailIndex(r, j, g)
                      /\ DetailIndex(r, j, g) <= Len(lines)

-----------------------------------------------------------------------------
(* Flattening *)

HasPrefix(s, p) == Len(p) <= Len(s) /\ SubSeq(s, 1, Len(p)) = p

\* The dotted paths of the values under `value` that are no mapping, found by
\* descending through the mappings; a sequence is one value.
RECURSIVE PathsOf(_, _)
PathsOf(path, value) ==
    IF ~IsDict(value) THEN {path}
    ELSE UNION {PathsOf(Dotted(path, value.items[i][1]), value.items[i][2]) :
                    i \in 1..Len(value.items)}

\* How many values that are no mapping there are under `value`.
RECURSIVE CountValues(_)
CountValues(value) ==
    IF ~IsDict(value) THEN 1
    ELSE Sum([i \in 1..Len(value.items) |-> CountValues(value.items[i][2])], Len(value.items))

\* The top-level items of record r that drop_fields does not exclude.
KeptItems(r) == SelectSeq(result[r].items, LAMBDA kv : kv[1] \notin drop_fields)

\* The key at `path` contributes a flattened field to record r: the path
\* itself, or a path below it.
Contributes(r, path) ==
    \E f \in FieldsOf(r) : f = path \/ HasPrefix(f, path \o <<".">>)

\* Every key of the mapping at `path`, and of the mappings nested in it,
\* contributes a flattened field to record r.
RECURSIVE SiblingsContribute(_, _, _)
SiblingsContribute(r, path, items) ==
    \A i \in 1..Len(items) :
        LET sub == Dotted(path, items[i][1])
        IN  /\ Contributes(r, sub)
            /\ IsDict(items[i][2]) => SiblingsContribute(r, sub, items[i][2].items)

\* The flattened fields of record r are exactly the dotted paths of its values
\* that are no mapping, one field a value.
ExactPaths(r) ==
    /\ FieldsOf(r) = PathsOf(<<>>, PyDict(KeptItems(r)))
    /\ Cardinality(FieldsOf(r)) = CountValues(PyDict(KeptItems(r)))
    /\ Len(formatted_values[r].items) = Cardinality(FieldsOf(r))

\* C12: the flattened fields of every record are exactly the dotted paths of
\* its values that are no mapping (a sequence is one value), one field a value
\* and no path twice, and no key is dropped: every top-level key that is not
\* excluded, and every key of a nested mapping, contributes at least one
\* flattened field.
C12_FlattenKeepsEveryKey ==
    FormattedAll =>
        \A r \in 1..NumRecords :
            /\ ExactPaths(r)
            /\ SiblingsContribute(r, <<>>, KeptItems(r))

\* What holds: the paths are exact and unique; a key whose value is a mapping
\* with no value below it contributes nothing.
C12_FlattenExactPaths ==
    FormattedAll => \A r \in 1..NumRecords : ExactPaths(r)

-----------------------------------------------------------------------------
(* A call without a layout *)

\* The distinct flattened field names of all the records.
AllFields == UNION {FieldsOf(r) : r \in 1..NumRecords}

\* The names of S in alphabetical order.
InOrder(S) == [k \in 1..Cardinality(S) |-> CHOOSE f \in S : RankIn(S, f) = k]

\* The formatted value of field f of record r, nothing when r lacks it.
Shown(r, f) == IF f \in FieldsOf(r) THEN ValueOf(r, f) ELSE <<>>

\* The "key = value" line of field f of record r.
KeyValueLine(r, f) == f \o <<" ", "=", " ">> \o Shown(r, f)

\* The "key = value" blocks of the records: one line a field, the fields in
\* alphabetical order, a blank line between two blocks.
KeyValueBlocks ==
    LET fields == InOrder(AllFields)
        block == Len(fields) + 1
    IN  [n \in 1..(NumRecords * block - 1) |->
            IF n % block = 0 THEN <<>>
            ELSE KeyValueLine((n - 1) \div block + 1, fields[n % block])]

\* A row of the table: one cell a field, padded to the field's width.
TableRow(fields, cell(_)) ==
    Join(TwoSpaces, [k \in 1..Len(fields) |-> Ljust(cell(fields[k]), DictGet(widths, fields[k]).n)])

\* C13 as the specification has it: a call without a layout that ends
\* without an exception has printed, for each record, a block of "key = value"
\* lines, one line a field, the distinct fields of all the records in
\* alphabetical order, a blank line between the blocks of two successive
\* records, and neither a header nor a row of "=".
C13_NoLayoutKeyValueBlocks ==
    (tpc = "done" /\ layout_arg = PyNone /\ result # <<>> /\ AllRecords /\ texc = "") =>
        lines = KeyValueBlocks

\* C13 as the code has it: a call without a layout on records uses as its
\* layout the single row of the distinct flattened field names of all the
\* records in alphabetical order.  With at least one field the output is the
\* header row (the names in upper case), the row of "=" and one data row a
\* record in input order, every cell padded to the column's width and empty
\* where the record lacks the field, with no blank line and no "key = value"
\* line; with no field at all nothing is printed and the call ends with an
\* IndexError.
C13_NoLayoutSingleRowTable ==
    (tpc = "done" /\ layout_arg = PyNone /\ result # <<>> /\ AllRecords) =>
        LET fields == InOrder(AllFields)
        IN  IF fields = <<>>
            THEN lines = <<>> /\ texc = "IndexError"
            ELSE /\ texc = ""
                 /\ table_layout = PyList(<<PyList([k \in 1..Len(fields) |-> PyStr(fields[k])])>>)
                 /\ Len(lines) = 2 + NumRecords
                 /\ lines[1] = TableRow(fields, LAMBDA f : Upper(f))
                 /\ lines[2] = TableRow(fields, LAMBDA f : Repeat("=", DictGet(widths, f).n))
                 /\ \A r \in 1..NumRecords :
                        lines[2 + r] = TableRow(fields, LAMBDA f : Shown(r, f))

\* C13's case: a call without a layout has printed the table of two records
\* whose fields were not met in alphabetical order and of which one lacks a
\* field of the other.
C13_Witness ==
    /\ tpc = "done" /\ layout_arg = PyNone /\ AllRecords /\ texc = ""
    /\ NumRecords = 2
    /\ Len(lines) = 4
    /\ FieldsOf(1) # FieldsOf(2)
    /\ KeysInInsertionOrder(widths) # InOrder(AllFields)

-----------------------------------------------------------------------------
(* One conversion, lines 398-401 of create_user_config, as a process *)

TypeList(names) == PyDict(<< <<K_type, PyList([i \in 1..Len(names) |-> PyStr(names[i])])>> >>)

\* The type descriptors: one of each declared type, arrays of several item
\* types and of arrays, types given as lists of names, and the types that have
\* no rule.
ConvSchemas ==
    { Leaf(T_string), Leaf(T_integer), Leaf(T_number), Leaf(T_boolean),
      ArrayOf(T_integer), ArrayOf(T_boolean), ArrayOf(T_string), ArrayOf(T_number),
      PyDict(<< <<K_type, PyStr(T_array)>>, <<K_items, ArrayOf(T_integer)>> >>),
      Leaf(T_array),
      Leaf(T_null), Leaf(T_object),
      TypeList(<<T_integer, T_null>>), TypeList(<<T_null, T_string>>),
      TypeList(<<T_boolean, T_null>>), TypeList(<<T_null>>),
      TypeList(<<T_number, T_integer>>) }

\* The raw strings: the boolean tokens and their near misses, numbers in
\* several notations, lists with valid, invalid and empty pieces.
ConvStrings ==
    { <<>>, <<"1">>, <<"0">>, S_true, S_false,
      <<"T", "r", "u", "e">>, <<"y", "e", "s">>, <<" ", "1">>,
      <<"0", "x", "1", "0">>, <<"1", ".", "5">>, <<"a", "=", "b">>,
      <<"1", ",", "2">>, <<"2", ",", "1", ",", "2">>, <<"1", ",", "x">>, <<",">>,
      <<"1", ",", ",", "2">>, <<"1", ",", "0", ",", "t", "r", "u", "e">> }

\* The assignment the conversion is part of: the value after an option name.
ConvKeyValue == <<"k", "=">> \o conv_value

InitConvert ==
    /\ conv_schema \in ConvSchemas
    /\ conv_value \in ConvStrings
    /\ converted = NoOutcome
    /\ assigned = NoOutcome
    /\ vpc = "try"
    /\ CompileIdle
    /\ TableIdle
    /\ TerminateIdle
    /\ CreateIdle

\* Line 399: the call of convert_str_to_value.
ConvertCall ==
    /\ vpc = "try"
    /\ converted' = convert_str_to_value(conv_schema, conv_value)
    /\ vpc' = "except"
    /\ UNCHANGED <<conv_schema, conv_value, assigned>>
    /\ UNCHANGED <<compileVars, tableVars, terminateVars, createVars>>

\* Lines 400-401: the except clause, and what leaves the try block.
ConvertExcept ==
    /\ vpc = "except"
    /\ assigned' = TryConvert(ConvKeyValue, converted)
    /\ vpc' = "done"
    /\ UNCHANGED <<conv_schema, conv_value, converted>>
    /\ UNCHANGED <<compileVars, tableVars, terminateVars, createVars>>

NextConvert ==
    \/ ConvertCall
    \/ ConvertExcept

SpecConvert == InitConvert /\ [][NextConvert]_vars

-----------------------------------------------------------------------------
(* What the claims about convert_str_to_value speak of *)

\* The type names a descriptor declares: its type, or the names of the list.
Declared(sch) ==
    LET type == DictGet(sch, K_type)
    IN  IF type.k = "str" THEN {type.s}
        ELSE {type.items[i].s : i \in 1..Len(type.items)}

\* The declared types that have a coercion rule.
RuleNames == {T_string, T_integer, T_number, T_boolean, T_array}

IsValueError(r) == ~r.ok /\ r.exc = "ValueError"

IsInvalidValue(r) == ~r.ok /\ r.exc = "UserError" /\ r.err = "InvalidValue"

\* r is what the rule of type t makes of string s: the string itself, an
\* int, a float, a bool, a list, or the rule's refusal.
ByRule(t, s, r) ==
    IF t = T_string THEN r = Returned(PyStr(s))
    ELSE IF t = T_integer THEN (r.ok /\ r.val.k = "int") \/ IsValueError(r)
    ELSE IF t = T_number THEN (r.ok /\ r.val.k = "float") \/ IsValueError(r)
    ELSE IF t = T_boolean THEN (r.ok /\ r.val.k = "bool") \/ IsInvalidValue(r)
    ELSE (r.ok /\ r.val.k = "list") \/ IsValueError(r) \/ IsInvalidValue(r)

\* The descriptor is one the specification describes: an array declares the
\* type of its items.
WellFormed(sch) == T_array \in Declared(sch) => DictHas(sch, K_items)

\* C14: a conversion is done by the rule of a type the descriptor declares
\* (string unchanged, integer and number parsed, boolean by its tokens, array
\* split), never by the rule of a type it does not declare, also when the type
\* is a list of names; a descriptor that declares none of string, integer,
\* number, boolean and array fails with UnsupportedType, the error naming the
\* declared type.
C14_TypeDispatch ==
    (vpc \in {"except", "done"} /\ WellFormed(conv_schema)) =>
        LET rules == Declared(conv_schema) \cap RuleNames
        IN  IF rules = {}
            THEN converted = Raised("UserError", "UnsupportedType",
                                    <<DictGet(conv_schema, K_type)>>)
            ELSE /\ \E t \in rules : ByRule(t, conv_value, converted)
                 /\ ~(converted.ok = FALSE /\ converted.err = "UnsupportedType")

\* C14's case: a descriptor whose type is the list of integer and null has
\* turned a string into an int.
C14_Witness ==
    /\ vpc = "done"
    /\ DictGet(conv_schema, K_type) = PyList(<<PyStr(T_integer), PyStr(T_null)>>)
    /\ conv_value = <<"0", "x", "1", "0">>
    /\ converted = Returned(PyInt(16))

\* The descriptor's only declared type with a rule is boolean.
IsBooleanSchema == Declared(conv_schema) \cap RuleNames = {T_boolean}

\* "1, 0, true, false"
AcceptedTokens ==
    <<"1", ",", " ", "0", ",", " ", "t", "r", "u", "e", ",", " ", "f", "a", "l", "s", "e">>

\* C15: a boolean conversion takes exactly the four tokens 1, 0, true and
\* false as they are written: 1 and true give true, 0 and false give false;
\* every other string is refused with the InvalidValue error that quotes the
\* string and lists the four tokens, no value is produced, and the error
\* leaves the try block as it is.
C15_BooleanTokens ==
    (vpc \in {"except", "done"} /\ IsBooleanSchema) =>
        /\ IF conv_value \in {<<"1">>, S_true} THEN converted = Returned(PyBool(TRUE))
           ELSE IF conv_value \in {<<"0">>, S_false} THEN converted = Returned(PyBool(FALSE))
           ELSE /\ converted = Raised("UserError", "InvalidValue",
                                      <<PyStr(conv_value), PyStr(AcceptedTokens)>>)
                /\ converted.val = PyNone
        /\ vpc = "done" => assigned = converted

\* C15's case: the string "yes" was refused by a boolean descriptor.
C15_Witness ==
    /\ vpc = "done" /\ IsBooleanSchema
    /\ conv_value = <<"y", "e", "s">>
    /\ IsInvalidValue(assigned)

\* The descriptor's only declared type with a rule is array, and it declares
\* the type of its items.
IsArraySchema ==
    /\ conv_schema # PyNone
    /\ Declared(conv_schema) \cap RuleNames = {T_array}
    /\ DictHas(conv_schema, K_items)

\* Where the commas of s are.
Commas(s) == {i \in 1..Len(s) : s[i] = ","}

\* Where the k-th comma of s is; before s for k = 0, behind it after the last.
CommaAt(s, k) ==
    IF k = 0 THEN 0
    ELSE IF k > Cardinality(Commas(s)) THEN Len(s) + 1
    ELSE CHOOSE i \in Commas(s) : Cardinality({j \in Commas(s) : j < i}) = k - 1

\* The k-th piece of s: what is between its (k-1)-th and its k-th comma.
Piece(s, k) == SubSeq(s, CommaAt(s, k - 1) + 1, CommaAt(s, k) - 1)

\* C16: an array descriptor with item type T turns a string into the list of
\* its pieces between the commas, each coerced by T, as many as there are
\* commas plus one and in the order of the string; when a piece is not a valid
\* T the assignment is refused with InvalidValue and no list is produced, not
\* even of the pieces that are valid.
C16_ArraySplitAndCoerce ==
    (vpc = "done" /\ IsArraySchema) =>
        LET T == DictGet(conv_schema, K_items)
            n == Cardinality(Commas(conv_value)) + 1
            each == [k \in 1..n |-> convert_str_to_value(T, Piece(conv_value, k))]
        IN  IF \A k \in 1..n : each[k].ok
            THEN /\ converted = Returned(PyList([k \in 1..n |-> each[k].val]))
                 /\ Len(converted.val.items) = n
                 /\ assigned = converted
            ELSE /\ ~converted.ok
                 /\ IsInvalidValue(assigned)
                 /\ assigned.val = PyNone

\* C16's case: "2,1,2" became the list 2, 1, 2 of an array of integers.
C16_Witness ==
    /\ vpc = "done" /\ IsArraySchema
    /\ DictGet(conv_schema, K_items) = Leaf(T_integer)
    /\ conv_value = <<"2", ",", "1", ",", "2">>
    /\ assigned = Returned(PyList(<<PyInt(2), PyInt(1), PyInt(2)>>))

-----------------------------------------------------------------------------
(* The syntax of an assignment *)

\* C17: an assignment is cut at its first "=" only: the assignment the loop
\* stored last had an "=", and the configuration holds, at the path that is the
\* text before the first "=", the coerced text after it, further "=" included;
\* an assignment with no "=" ends the call with InvalidAssignmentSyntax (the
\* UserError "Invalid config value" quoting it), whether or not its text is an
\* option, and the call ends with that error for no other assignment.
C17_SplitAtFirstEquals ==
    Flattened =>
        /\ \A i \in Stored : HasEq(args_user_config[i])
        /\ idx >= 1 =>
               LET key_value == args_user_config[idx]
               IN  GetAt(user_config, Split(PathOf(key_value), ".")) = Coerced(key_value)
        /\ (cpc = "done" /\ idx < Len(args_user_config)) =>
               LET key_value == args_user_config[idx + 1]
               IN  /\ ~HasEq(key_value) =>
                          outcome = Raised("UserError", "InvalidAssignmentSyntax",
                                           <<PyStr(key_value)>>)
                   /\ (~outcome.ok /\ outcome.err = "InvalidAssignmentSyntax") =>
                          ~HasEq(key_value)

\* C17's case: an assignment whose value holds an "=" was stored with that
\* value, and the next one, with no "=", ended the call.
C17_Witness ==
    /\ Flattened /\ cpc = "done" /\ idx >= 1 /\ idx < Len(args_user_config)
    /\ LET key_value == args_user_config[idx]
       IN  /\ IndexOf(RawValueOf(key_value), "=") > 0
           /\ GetAt(user_config, Split(PathOf(key_value), ".")) = PyStr(RawValueOf(key_value))
    /\ ~HasEq(args_user_config[idx + 1])
    /\ outcome.err = "InvalidAssignmentSyntax"

-----------------------------------------------------------------------------
(* cli.py: service_terminate as a process *)

\* The longest list of services on one command line.
MaxNames == 2

ServiceNames == {<<"d", "b">>, <<"w", "e", "b">>}

\* What the user may type at a prompt: a service name, something else, nothing.
UserInputs == ServiceNames \cup {<<"d", "B">>, <<>>}

\* The values of AIVEN_FORCE in the environment: unset, "true", something else.
EnvValues == {PyNone, PyStr(S_true), PyStr(<<"1">>)}

\* A test that takes any value of AIVEN_FORCE for a yes.
SkipConfirmationIfEnvSet(force, env) == force \/ env # PyNone

\* Line 347, negated: the confirmation is skipped.
SkipConfirmation(force, env) == ~(~force /\ env # PyStr(S_true))

InitTerminate ==
    /\ args_force \in BOOLEAN
    /\ env_AIVEN_FORCE \in EnvValues
    /\ args_name \in {q \in SeqsUpTo(ServiceNames, MaxNames) : q # <<>>}
    /\ entered = <<>>
    /\ deleted = <<>>
    /\ kpc = "start"
    /\ kexc = ""
    /\ CompileIdle
    /\ TableIdle
    /\ ConvertIdle
    /\ CreateIdle

\* Lines 347-356: whether to ask; the banner is printed when asking.
ServiceTerminateBegin ==
    /\ kpc = "start"
    /\ kpc' = IF SkipConfirmation(args_force, env_AIVEN_FORCE) THEN "delete" ELSE "confirm"
    /\ UNCHANGED <<args_force, env_AIVEN_FORCE, args_name, entered, deleted, kexc>>
    /\ UNCHANGED <<compileVars, tableVars, convertVars, createVars>>

\* Lines 358-361: one prompt; a name typed differently ends the command.
ServiceTerminateConfirm ==
    /\ kpc = "confirm"
    /\ \E user_input \in UserInputs :
           LET name == args_name[Len(entered) + 1]
           IN  /\ entered' = Append(entered, user_input)
               /\ IF user_input # name
                  THEN kexc' = "UserError" /\ kpc' = "done"
                  ELSE /\ kpc' = IF Len(entered) + 1 = Len(args_name) THEN "delete" ELSE "confirm"
                       /\ UNCHANGED kexc
    /\ UNCHANGED <<args_force, env_AIVEN_FORCE, args_name, deleted>>
    /\ UNCHANGED <<compileVars, tableVars, convertVars, createVars>>

\* Lines 363-365: one delete_service call; the request may fail, which ends
\* the command with the client's error.
ServiceTerminateDelete ==
    /\ kpc = "delete"
    /\ deleted' = Append(deleted, args_name[Len(deleted) + 1])
    /\ \E served \in BOOLEAN :
           IF served
           THEN /\ kpc' = IF Len(deleted) + 1 = Len(args_name) THEN "done" ELSE "delete"
                /\ UNCHANGED kexc
           ELSE kexc' = "Error" /\ kpc' = "done"
    /\ UNCHANGED <<args_force, env_AIVEN_FORCE, args_name, entered>>
    /\ UNCHANGED <<compileVars, tableVars, convertVars, createVars>>

NextTerminate ==
    \/ ServiceTerminateBegin
    \/ ServiceTerminateConfirm
    \/ ServiceTerminateDelete

SpecTerminate == InitTerminate /\ [][NextTerminate]_vars

-----------------------------------------------------------------------------
(* What the claim about service_terminate speaks of *)

\* --force was given or AIVEN_FORCE is "true".
Forced == args_force \/ env_AIVEN_FORCE = PyStr(S_true)

\* The user typed the name of every service of the command line, in order.
AllReEntered == entered = args_name

\* Some name was typed differently.
Mistyped == \E i \in 1..Len(entered) : entered[i] # args_name[i]

\* C18: without --force and without AIVEN_FORCE being "true", delete_service
\* is called only once the user has typed again, correctly and in order, the
\* name of every service of the command line; a name typed differently ends the
\* command with a UserError at that prompt, and then no service is deleted, the
\* ones confirmed before included.  The calls are made for the services in the
\* order of the command line, and with the confirmation skipped nothing is
\* asked.
C18_NoDeleteWithoutConfirmation ==
    /\ deleted # <<>> => Forced \/ AllReEntered
    /\ deleted = SubSeq(args_name, 1, Len(deleted))
    /\ Forced => entered = <<>>
    /\ Mistyped =>
           /\ kpc = "done" /\ kexc = "UserError"
           /\ deleted = <<>>
           /\ \A i \in 1..(Len(entered) - 1) : entered[i] = args_name[i]
    /\ kexc = "UserError" => Mistyped

\* C18's case: with no force, two services were deleted after both names had
\* been typed again.
C18_Witness ==
    /\ kpc = "done" /\ kexc = ""
    /\ ~Forced
    /\ Len(args_name) = 2
    /\ AllReEntered
    /\ deleted = args_name

-----------------------------------------------------------------------------
(* cli.py: service_create as a process *)

\* The -t arguments: a type alone, the "type:plan" form that "service plans"
\* prints, an unknown type, a type with two colons.
CreateServiceTypes ==
    { <<"p", "g">>, <<"p", "g", ":", "h">>, <<"k", "c", ":", "h">>,
      <<"z", "z", ":", "h">>, <<"p", "g", ":", "h", ":", "x">> }

\* The -p arguments: none, a plan.
CreatePlans == {PyNone, PyStr(<<"h">>)}

\* The -c arguments are made of these.
CreateAssignStrings ==
    { <<"n", "=", "0", "x", "1", "0">>, <<"n", "=", "x">>, <<"a", "=", "x">> }

\* What the service answers to the request: done, the service exists, a failure.
Responses == {"200", "409", "500"}

InitCreate ==
    /\ args_service_type \in CreateServiceTypes
    /\ args_plan \in CreatePlans
    /\ args_no_fail_if_exists \in BOOLEAN
    /\ args_user_config \in SeqsUpTo(CreateAssignStrings, MaxAssignments)
    /\ create_service_type = PyNone
    /\ plan = PyNone
    /\ request = PyNone
    /\ spc = "start"
    /\ sexc = ""
    /\ service_type = <<>>
    /\ options = PyNone
    /\ user_config = PyNone
    /\ idx = 0
    /\ cpc = "idle"
    /\ outcome = NoOutcome
    /\ TableIdle
    /\ ConvertIdle
    /\ TerminateIdle

\* Lines 424-433: the type and the plan; then, the arguments of create_service
\* being evaluated in turn, line 444 calls create_user_config with
\* self.args.service_type.
ServiceCreateBegin ==
    /\ spc = "start"
    /\ LET service_type_info == Split(args_service_type, ":")
           chosen == IF Len(service_type_info) = 2 THEN PyStr(service_type_info[2])
                     ELSE IF Truthy(args_plan) THEN args_plan
                     ELSE PyNone
       IN  /\ create_service_type' = PyStr(service_type_info[1])
           /\ plan' = chosen
           /\ IF ~Truthy(chosen)
              THEN /\ sexc' = "UserError"
                   /\ spc' = "done"
                   /\ UNCHANGED <<service_type, cpc>>
              ELSE /\ service_type' = args_service_type
                   /\ cpc' = "start"
                   /\ spc' = "compile"
                   /\ UNCHANGED sexc
    /\ UNCHANGED <<args_service_type, args_plan, args_no_fail_if_exists, request>>
    /\ UNCHANGED <<args_user_config, options, user_config, idx, outcome>>
    /\ UNCHANGED <<tableVars, convertVars, terminateVars>>

\* Lines 437-450: an exception of create_user_config leaves service_create;
\* otherwise the request is sent, and a failure of it is raised again unless
\* it says that the service exists and --no-fail-if-exists was given.
ServiceCreateSend ==
    /\ spc = "compile"
    /\ cpc = "done"
    /\ IF ~outcome.ok
       THEN /\ sexc' = outcome.exc
            /\ UNCHANGED request
       ELSE /\ request' = [service_type |-> create_service_type, plan |-> plan,
                           user_config |-> outcome.val]
            /\ \E response \in Responses :
                   sexc' = IF response = "200" THEN ""
                           ELSE IF args_no_fail_if_exists /\ response = "409" THEN ""
                           ELSE "Error"
    /\ spc' = "done"
    /\ UNCHANGED <<args_service_type, args_plan, args_no_fail_if_exists,
                   create_service_type, plan>>
    /\ UNCHANGED <<compileVars, tableVars, convertVars, terminateVars>>

NextCreate ==
    \/ ServiceCreateBegin
    \/ CreateUserConfigBegin
    \/ CreateUserConfigAssign
    \/ CreateUserConfigReturn
    \/ ServiceCreateSend

SpecCreate == InitCreate /\ [][NextCreate]_vars

-----------------------------------------------------------------------------
(* What the claim about service_create speaks of *)

\* What the loop of create_user_config makes of a list of assignments.
RECURSIVE CompileLoop(_, _, _)
CompileLoop(opts, conf, assignments) ==
    IF assignments = <<>> THEN Returned(conf)
    ELSE LET r == ProcessAssignment(opts, conf, assignments[1])
         IN  IF r.ok THEN CompileLoop(opts, r.val, Tail(assignments)) ELSE r

\* The flattened schema of a known service type.
OptionsOf(stype) ==
    collect_user_config_options(DictGet(DictGet(ServiceTypes, stype), K_user_config_schema), <<>>)

\* How create_user_config ends for "-t stype" and a list of assignments.
CompileFor(stype, assignments) ==
    IF assignments = <<>> THEN Returned(EmptyDict)
    ELSE IF ~DictHas(ServiceTypes, stype)
    THEN Raised("UserError", "UnknownServiceType",
                <<PyStr(stype), PyStr(Join(CommaSpace, DictKeys(ServiceTypes)))>>)
    ELSE CompileLoop(OptionsOf(stype), EmptyDict, assignments)

\* The -t argument has the form "type:plan".
TypePlanForm == Cardinality({i \in 1..Len(args_service_type) : args_service_type[i] = ":"}) = 1

\* The part of the -t argument before its first ":".
TypeOfArg == SubSeq(args_service_type, 1,
                    (IF IndexOf(args_service_type, ":") > 0
                     THEN IndexOf(args_service_type, ":")
                     ELSE Len(args_service_type) + 1) - 1)

\* C19: service_create with "-t type:plan" and at least one -c assignment
\* compiles the assignments against the schema of "type", the service type it
\* sends to create_service: the options are those of "type", the assignments
\* are accepted or refused as create_user_config accepts or refuses them for
\* "-t type", and an accepted configuration is the one sent.
C19_CompilesAgainstCreatedType ==
    (spc = "done" /\ TypePlanForm /\ args_user_config # <<>>) =>
        LET expected == CompileFor(TypeOfArg, args_user_config)
        IN  /\ create_service_type = PyStr(TypeOfArg)
            /\ DictHas(ServiceTypes, TypeOfArg) => options = OptionsOf(TypeOfArg)
            /\ outcome.ok = expected.ok
            /\ outcome.exc = expected.exc /\ outcome.err = expected.err
            /\ outcome.ok =>
                   /\ outcome.val = expected.val
                   /\ request # PyNone
                   /\ request.service_type = PyStr(TypeOfArg)
                   /\ request.user_config = expected.val

\* What holds: a -t argument without ":" is compiled against its own schema.
C19_PlainTypeCompiles ==
    (spc = "done" /\ sexc # "UserError" /\ IndexOf(args_service_type, ":") = 0) =>
        /\ outcome = CompileFor(args_service_type, args_user_config)
        /\ outcome.ok
        /\ request.service_type = PyStr(args_service_type)
        /\ request.user_config = outcome.val

====
